---------------------------- MODULE Spec2Model ----------------------------
(***************************************************************************)
(* XLog: the remote-file-backed profile and transcript store.              *)
(*                                                                         *)
(* The remote store (Yandex Disk behind yadisk.Client) is a set of         *)
(* directories and a map from file paths to bytes.  Every public method of *)
(* YandexDiskClient and ProfileManager is a sequence of store calls        *)
(* (exists, mkdir, download, upload, listdir); each store call is one      *)
(* atomic step, and each may fail (the transport raises).  A caller runs   *)
(* a stack of frames, one per method activation.  TelegramBot's handlers of*)
(* a text message and of a button run on the same stack; the language model*)
(* and the chat are their environment: a model call returns nothing, an    *)
(* empty content or a reply, and a text sent to a user arrives.            *)
(*                                                                         *)
(* A remote path is the sequence of its '/'-separated segments; bytes are  *)
(* sequences over 0..255; text is a sequence of Unicode code points.       *)
(*                                                                         *)
(* Specifications:                                                         *)
(*   Spec        one caller of the adapter's methods and of save_message   *)
(*   SpecRace    two callers of append_to_file, at any time                *)
(*   SpecOwned   two callers of append_to_file, one writer per file        *)
(*   SpecAssets  one caller of get_profile_files, on varied profiles       *)
(*   SpecCore    one caller of ProfileManager's methods, on varied days    *)
(*   SpecRecent  get_recent_messages on varied logs, limits and days       *)
(*   SpecSave    save_message on a fresh partition, varied roles and texts *)
(*   SpecContext build_context on varied profiles, logs and days           *)
(*   SpecLibrary add_to_library, several additions                         *)
(*   SpecCodec   write_to_file and read_file, varied texts and bytes       *)
(*   SpecBot     handle_message, one user, with or without a profile       *)
(*   SpecStore   one caller of every public method of adapter and core     *)
(*   SpecLooks   _looks_like_text on texts around its thresholds           *)
(*   SpecShared  two callers of ensure_folder_exists, shared segments      *)
(*   SpecSelect  button_callback and handle_message, two users             *)
(***************************************************************************)
EXTENDS Integers, Sequences, FiniteSets, TLC

VARIABLES
    dirs,      \* the directories of the remote store, as paths under the root folder (<<>> is the root folder itself)
    files,     \* the files of the remote store: path -> bytes
    stack,     \* per caller: the frames of the methods it is running, innermost last
    ret,       \* per caller: the outcome of the method that returned last
    cur,       \* per caller: what is recorded about the public call in progress
    prev,      \* per caller: the path the public call before it ensured, if it did
    today,     \* the calendar date datetime.now() returns: [y, m, d]
    detector,  \* CHARSET_DETECT_AVAILABLE
    sent,      \* the files the run began with (base), the uploads the store has taken, in order (log), and the texts add_to_library has added (added)
    temps,     \* the callers with a temporary file of theirs on the local disk
    user_profiles,  \* telegram_bot.user_profiles: user id -> name of the active profile
    requests,  \* the calls of DeepSeekClient.send_message made so far, in order, each with what it returned
    replies    \* per user: the text the bot sent them last, and of which kind

\* the state of the bot's message handling
chat == <<user_profiles, requests, replies>>

vars == <<dirs, files, stack, ret, cur, prev, today, detector, sent, temps, user_profiles, requests, replies>>

----------------------------------------------------------------------------
(* Bounds of the model. *)

\* A run makes at most this many uploads: past it no writing method is called.
MaxUploads == 2

\* The language model is called at most this many times: past it no message arrives.
MaxMessages == 2

Callers == {1, 2}

----------------------------------------------------------------------------
(* Sequences. *)

IsPrefix(s, t) == Len(s) <= Len(t) /\ SubSeq(t, 1, Len(s)) = s

Last(s) == s[Len(s)]

\* remote_path.split('/')[:-1]
Front(s) == SubSeq(s, 1, Len(s) - 1)

\* the parts the loop of ensure_folder_exists does not skip
NonEmpty(parts) == SelectSeq(parts, LAMBDA p : p # "")

\* '/'.join(parts) is the empty string
JoinIsEmpty(parts) == parts = <<>> \/ parts = <<"">>


----------------------------------------------------------------------------
(* Text and bytes: UTF-8, as open(..., encoding='utf-8') writes it. *)

EncodeChar(cp) ==
    IF cp < 128 THEN <<cp>>
    ELSE IF cp < 2048 THEN <<192 + (cp \div 64), 128 + (cp % 64)>>
    ELSE IF cp < 65536
    THEN <<224 + (cp \div 4096), 128 + ((cp \div 64) % 64), 128 + (cp % 64)>>
    ELSE <<240 + (cp \div 262144), 128 + ((cp \div 4096) % 64), 128 + ((cp \div 64) % 64), 128 + (cp % 64)>>

RECURSIVE Encode(_)
Encode(text) == IF text = <<>> THEN <<>> ELSE EncodeChar(Head(text)) \o Encode(Tail(text))

IsCont(b) == 128 <= b /\ b <= 191

\* the code point at the head of bytes b and the bytes it takes; n = 0: no valid sequence starts here
Utf8Head(b) ==
    LET b1 == b[1]
        n  == Len(b)
    IN  IF b1 < 128 THEN [cp |-> b1, n |-> 1]
        ELSE IF 194 <= b1 /\ b1 <= 223 /\ n >= 2 /\ IsCont(b[2])
        THEN [cp |-> (b1 - 192) * 64 + (b[2] - 128), n |-> 2]
        ELSE IF 224 <= b1 /\ b1 <= 239 /\ n >= 3 /\ IsCont(b[2]) /\ IsCont(b[3])
                /\ (b1 = 224 => b[2] >= 160) /\ (b1 = 237 => b[2] <= 159)
        THEN [cp |-> (b1 - 224) * 4096 + (b[2] - 128) * 64 + (b[3] - 128), n |-> 3]
        ELSE IF 240 <= b1 /\ b1 <= 244 /\ n >= 4 /\ IsCont(b[2]) /\ IsCont(b[3]) /\ IsCont(b[4])
                /\ (b1 = 240 => b[2] >= 144) /\ (b1 = 244 => b[2] <= 143)
        THEN [cp |-> (b1 - 240) * 262144 + (b[2] - 128) * 4096 + (b[3] - 128) * 64 + (b[4] - 128), n |-> 4]
        ELSE [cp |-> 0, n |-> 0]

\* raw.decode('utf-8') does not raise
RECURSIVE ValidUtf8(_)
ValidUtf8(b) ==
    IF b = <<>> THEN TRUE
    ELSE Utf8Head(b).n > 0 /\ ValidUtf8(SubSeq(b, Utf8Head(b).n + 1, Len(b)))

\* raw.decode('utf-8', errors='ignore'): bytes that start no valid sequence are dropped
RECURSIVE DecodeUtf8Ignore(_)
DecodeUtf8Ignore(b) ==
    IF b = <<>> THEN <<>>
    ELSE IF Utf8Head(b).n = 0 THEN DecodeUtf8Ignore(Tail(b))
    ELSE <<Utf8Head(b).cp>> \o DecodeUtf8Ignore(SubSeq(b, Utf8Head(b).n + 1, Len(b)))

RECURSIVE DecodeUtf8(_)
\* raw.decode('utf-8') of bytes that are valid UTF-8
DecodeUtf8(b) ==
    IF b = <<>> THEN <<>>
    ELSE <<Utf8Head(b).cp>> \o DecodeUtf8(SubSeq(b, Utf8Head(b).n + 1, Len(b)))

(* The single-byte codecs of the fallback list, as Python's codecs define  *)
(* them: bytes below 128 are ASCII in all four; each table gives the code  *)
(* points of bytes 128..255, -1 for a byte the codec does not define.      *)

Cp1251High ==
    <<1026, 1027, 8218, 1107, 8222, 8230, 8224, 8225, 8364, 8240, 1033, 8249, 1034, 1036, 1035, 1039,
      1106, 8216, 8217, 8220, 8221, 8226, 8211, 8212, -1, 8482, 1113, 8250, 1114, 1116, 1115, 1119,
      160, 1038, 1118, 1032, 164, 1168, 166, 167, 1025, 169, 1028, 171, 172, 173, 174, 1031,
      176, 177, 1030, 1110, 1169, 181, 182, 183, 1105, 8470, 1108, 187, 1112, 1029, 1109, 1111,
      1040, 1041, 1042, 1043, 1044, 1045, 1046, 1047, 1048, 1049, 1050, 1051, 1052, 1053, 1054, 1055,
      1056, 1057, 1058, 1059, 1060, 1061, 1062, 1063, 1064, 1065, 1066, 1067, 1068, 1069, 1070, 1071,
      1072, 1073, 1074, 1075, 1076, 1077, 1078, 1079, 1080, 1081, 1082, 1083, 1084, 1085, 1086, 1087,
      1088, 1089, 1090, 1091, 1092, 1093, 1094, 1095, 1096, 1097, 1098, 1099, 1100, 1101, 1102, 1103>>

Koi8rHigh ==
    <<9472, 9474, 9484, 9488, 9492, 9496, 9500, 9508, 9516, 9524, 9532, 9600, 9604, 9608, 9612, 9616,
      9617, 9618, 9619, 8992, 9632, 8729, 8730, 8776, 8804, 8805, 160, 8993, 176, 178, 183, 247,
      9552, 9553, 9554, 1105, 9555, 9556, 9557, 9558, 9559, 9560, 9561, 9562, 9563, 9564, 9565, 9566,
      9567, 9568, 9569, 1025, 9570, 9571, 9572, 9573, 9574, 9575, 9576, 9577, 9578, 9579, 9580, 169,
      1102, 1072, 1073, 1094, 1076, 1077, 1092, 1075, 1093, 1080, 1081, 1082, 1083, 1084, 1085, 1086,
      1087, 1103, 1088, 1089, 1090, 1091, 1078, 1074, 1100, 1099, 1079, 1096, 1101, 1097, 1095, 1098,
      1070, 1040, 1041, 1062, 1044, 1045, 1060, 1043, 1061, 1048, 1049, 1050, 1051, 1052, 1053, 1054,
      1055, 1071, 1056, 1057, 1058, 1059, 1046, 1042, 1068, 1067, 1047, 1064, 1069, 1065, 1063, 1066>>

Cp866High ==
    <<1040, 1041, 1042, 1043, 1044, 1045, 1046, 1047, 1048, 1049, 1050, 1051, 1052, 1053, 1054, 1055,
      1056, 1057, 1058, 1059, 1060, 1061, 1062, 1063, 1064, 1065, 1066, 1067, 1068, 1069, 1070, 1071,
      1072, 1073, 1074, 1075, 1076, 1077, 1078, 1079, 1080, 1081, 1082, 1083, 1084, 1085, 1086, 1087,
      9617, 9618, 9619, 9474, 9508, 9569, 9570, 9558, 9557, 9571, 9553, 9559, 9565, 9564, 9563, 9488,
      9492, 9524, 9516, 9500, 9472, 9532, 9566, 9567, 9562, 9556, 9577, 9574, 9568, 9552, 9580, 9575,
      9576, 9572, 9573, 9561, 9560, 9554, 9555, 9579, 9578, 9496, 9484, 9608, 9604, 9612, 9616, 9600,
      1088, 1089, 1090, 1091, 1092, 1093, 1094, 1095, 1096, 1097, 1098, 1099, 1100, 1101, 1102, 1103,
      1025, 1105, 1028, 1108, 1031, 1111, 1038, 1118, 176, 8729, 183, 8730, 8470, 164, 9632, 160>>

Iso8859_5High ==
    <<128, 129, 130, 131, 132, 133, 134, 135, 136, 137, 138, 139, 140, 141, 142, 143,
      144, 145, 146, 147, 148, 149, 150, 151, 152, 153, 154, 155, 156, 157, 158, 159,
      160, 1025, 1026, 1027, 1028, 1029, 1030, 1031, 1032, 1033, 1034, 1035, 1036, 173, 1038, 1039,
      1040, 1041, 1042, 1043, 1044, 1045, 1046, 1047, 1048, 1049, 1050, 1051, 1052, 1053, 1054, 1055,
      1056, 1057, 1058, 1059, 1060, 1061, 1062, 1063, 1064, 1065, 1066, 1067, 1068, 1069, 1070, 1071,
      1072, 1073, 1074, 1075, 1076, 1077, 1078, 1079, 1080, 1081, 1082, 1083, 1084, 1085, 1086, 1087,
      1088, 1089, 1090, 1091, 1092, 1093, 1094, 1095, 1096, 1097, 1098, 1099, 1100, 1101, 1102, 1103,
      8470, 1105, 1106, 1107, 1108, 1109, 1110, 1111, 1112, 1113, 1114, 1115, 1116, 167, 1118, 1119>>

\* line 247: encodings
Encodings == <<"utf-8", "windows-1251", "koi8-r", "cp866", "iso-8859-5">>

\* the code point of byte b in single-byte codec enc (-1: undefined); ASCII below 128
ByteOf(enc, b) ==
    LET high == CASE enc = "windows-1251" -> Cp1251High
                  [] enc = "koi8-r" -> Koi8rHigh
                  [] enc = "cp866" -> Cp866High
                  [] enc = "iso-8859-5" -> Iso8859_5High
    IN  IF b < 128 THEN b ELSE high[b - 127]

\* raw.decode(enc) does not raise UnicodeDecodeError
Decodes(enc, raw) ==
    IF enc = "utf-8" THEN ValidUtf8(raw)
    ELSE \A i \in 1..Len(raw) : ByteOf(enc, raw[i]) # -1

\* raw.decode(enc), when it does not raise
Decode(enc, raw) ==
    IF enc = "utf-8" THEN DecodeUtf8(raw)
    ELSE [i \in 1..Len(raw) |-> ByteOf(enc, raw[i])]

\* U+FEFF
BOM == 65279

\* content[1:] if content.startswith(U+FEFF)
StripBOM(text) == IF text # <<>> /\ text[1] = BOM THEN Tail(text) ELSE text

\* ',.!?-;:"()[]{}'
Punctuation == {44, 46, 33, 63, 45, 59, 58, 34, 40, 41, 91, 93, 123, 125}

\* ch.isalpha() or ch.isdigit() or ch.isspace() or ch in punctuation, or Cyrillic:
\* lines 287-291, for the code points below U+0100, the Cyrillic block and what
\* the codecs above produce
IsGoodChar(cp) ==
    \/ (65 <= cp /\ cp <= 90) \/ (97 <= cp /\ cp <= 122)          \* A-Z a-z
    \/ (48 <= cp /\ cp <= 57)                                     \* 0-9
    \/ (9 <= cp /\ cp <= 13) \/ (28 <= cp /\ cp <= 32)            \* ASCII white space
    \/ cp \in {133, 160}                                          \* NEL, NBSP: isspace
    \/ cp \in {170, 178, 179, 181, 185, 186} \/ (192 <= cp /\ cp <= 255 /\ cp \notin {215, 247})  \* Latin-1 letters
    \/ cp \in Punctuation
    \/ (1024 <= cp /\ cp <= 1279)                                 \* 'Ѐ' <= ch <= 'ӿ'

\* line 277
MinTextLen == 10
\* line 284
MaxScanned == 1000

\* YandexDiskClient._looks_like_text; ratio > 0.6 as 10 * good > 6 * total
\* a variant that accepts a ratio of exactly 0.6 and scans the whole text
LooksLikeTextLoose(text) ==
    IF Len(text) < MinTextLen THEN TRUE
    ELSE 10 * Cardinality({i \in 1..Len(text) : IsGoodChar(text[i])}) >= 6 * Len(text)

LooksLikeText(text) ==
    IF Len(text) < MinTextLen THEN TRUE
    ELSE LET n    == IF Len(text) < MaxScanned THEN Len(text) ELSE MaxScanned
             good == Cardinality({i \in 1..n : IsGoodChar(text[i])})
         IN  10 * good > 6 * n

\* a variant that takes the first codec that decodes, whatever the text looks like
RECURSIVE FallbackUnchecked(_, _)
FallbackUnchecked(k, raw) ==
    IF k > Len(Encodings) THEN DecodeUtf8Ignore(raw)
    ELSE IF Decodes(Encodings[k], raw) THEN StripBOM(Decode(Encodings[k], raw))
    ELSE FallbackUnchecked(k + 1, raw)

\* YandexDiskClient._fallback_decode, from codec k of the list on
RECURSIVE FallbackFrom(_, _)
FallbackFrom(k, raw) ==
    IF k > Len(Encodings) THEN DecodeUtf8Ignore(raw)
    ELSE IF Decodes(Encodings[k], raw) /\ LooksLikeText(Decode(Encodings[k], raw))
    THEN StripBOM(Decode(Encodings[k], raw))
    ELSE FallbackFrom(k + 1, raw)

FallbackDecode(raw) == FallbackFrom(1, raw)

\* what from_bytes(raw).best() may give (charset-normalizer is a library the
\* code calls): None or a raised error, and then the fallback, or the text of
\* some codec that decodes raw, with a leading BOM stripped (lines 209-229)
DetectedDecodings(raw) ==
    {FallbackDecode(raw)}
        \cup {StripBOM(Decode(Encodings[k], raw)) : k \in {j \in 1..Len(Encodings) : Decodes(Encodings[j], raw)}}

\* the texts read_file may return for the downloaded bytes raw (lines 209-233)
ReadDecodings(raw) ==
    IF detector /\ raw # <<>> THEN DetectedDecodings(raw) ELSE {FallbackDecode(raw)}


----------------------------------------------------------------------------
(* The remote store: what yadisk.Client's calls do when the transport works. *)

\* a variant of exists that sees directories only
ExistsAsFolder(p) == p \in dirs

\* client.exists(path): a file or a directory is there
StoreExists(p) == p \in dirs \/ p \in DOMAIN files

\* client.mkdir(path) succeeds: the parent is a directory and nothing is at path
MkdirOk(p) == p # <<>> /\ Front(p) \in dirs /\ ~StoreExists(p)

\* client.download(path, tmp) succeeds: path is a file
DownloadOk(p) == p \in DOMAIN files

\* client.upload(tmp, path, overwrite=True) succeeds: the parent is a directory and path is no directory
UploadOk(p) == p # <<>> /\ Front(p) \in dirs /\ p \notin dirs

\* the uploads taken, after the upload of method kind that put text into the file at p
Sent(kind, p, text) == [sent EXCEPT !.log = Append(@, <<kind, p, text>>)]

\* a variant of upload that leaves a file that is there as it is (overwrite=False, unreported)
UploadedOnce(p, data) ==
    IF p \in DOMAIN files THEN files ELSE [q \in DOMAIN files \cup {p} |-> IF q = p THEN data ELSE files[q]]

\* a variant of upload that replaces the folder of the file: the files beside it are gone
UploadedAlone(p, data) ==
    [q \in {r \in DOMAIN files : Front(r) # Front(p)} \cup {p} |-> IF q = p THEN data ELSE files[q]]

\* the store after client.upload(tmp, path, overwrite=True)
Uploaded(p, data) == [q \in DOMAIN files \cup {p} |-> IF q = p THEN data ELSE files[q]]

\* client.listdir(path): the names of the entries of directory path
Listing(p) == {Last(q) : q \in {r \in dirs \cup DOMAIN files : r # <<>> /\ Front(r) = p}}

----------------------------------------------------------------------------
(* Outcomes of a method: a returned value, tagged by its type. *)

NoOutcome == [k |-> "idle"]
Bool(b)   == [k |-> "bool", v |-> b]
None      == [k |-> "none"]
Text(t)   == [k |-> "text", v |-> t]
Names(s)  == [k |-> "list", v |-> s]
Map(m)    == [k |-> "map", v |-> m]
Raised(e) == [k |-> "raise", v |-> e]

IsTrue(o)  == o.k = "bool" /\ o.v
IsFalse(o) == o.k = "bool" /\ ~o.v

\* Python's truth of a returned text: "if content:"
Truthy(o) == o.k = "text" /\ o.v # <<>>

----------------------------------------------------------------------------
(* Callers and frames. *)

Idle(c) == stack[c] = <<>>
Top(c)  == stack[c][Len(stack[c])]
\* caller c is at pc of method fn, and the method it called, if any, has returned without raising
At(c, fn, pc) == ~Idle(c) /\ Top(c).fn = fn /\ Top(c).pc = pc /\ ret[c].k # "raise"

\* the frame of a fresh activation of each method of YandexDiskClient
EnsureFrame(path) ==
    [fn |-> "ensure_folder_exists", path |-> path, parts |-> NonEmpty(path), i |-> 1,
     pc |-> IF NonEmpty(path) = <<>> THEN "done" ELSE "exists"]
AppendFrame(path, content) ==
    [fn |-> "append_to_file", path |-> path, content |-> content, tmp |-> <<>>, pc |-> "ensure"]
WriteFrame(path, content) ==
    [fn |-> "write_to_file", path |-> path, content |-> content, pc |-> "ensure"]
ReadFrame(path) == [fn |-> "read_file", path |-> path, pc |-> "exists"]
ListFrame(path) == [fn |-> "list_files", path |-> path, pc |-> "exists"]

\* the top frame moves on
Goto(c, f) == stack' = [stack EXCEPT ![c] = [@ EXCEPT ![Len(@)] = f]]

\* the top frame becomes cont and calls callee
Call(c, cont, callee) ==
    stack' = [stack EXCEPT ![c] = Append([@ EXCEPT ![Len(@)] = cont], callee)]

\* what is recorded of a store call that raised in a method further down
Nested == <<"nested", <<>>>>

\* a store call of the top frame raised (failed), or mk calls of mkdir were issued;
\* the record names the method and its path when it is the public method or one it calls itself
Record(c, failed, mk) ==
    cur' = [cur EXCEPT ![c].faults = IF ~failed THEN @
                                     ELSE IF Len(stack[c]) <= 2 THEN @ \cup {<<Top(c).fn, Top(c).path>>}
                                     ELSE @ \cup {Nested},
                       ![c].mkdirs = @ + mk]

\* what is kept of a public call when it completes: its path, when it was
\* ensure_folder_exists and returned True
NoEnsured == <<"-">>
Summary(c, o) ==
    IF cur[c].op = "ensure_folder_exists" /\ IsTrue(o) THEN cur[c].path ELSE NoEnsured

\* the top frame returns o
Return(c, o) ==
    /\ stack' = [stack EXCEPT ![c] = Front(@)]
    /\ ret' = [ret EXCEPT ![c] = o]
    /\ prev' = IF Len(stack[c]) = 1 THEN [prev EXCEPT ![c] = Summary(c, o)] ELSE prev

\* a variant in which the error a store call raised leaves the method
FailRaises(c, o) == Return(c, Raised("Exception")) /\ Record(c, TRUE, 0)

\* the top frame catches the error a store call raised and returns o
Fail(c, o) == Return(c, o) /\ Record(c, TRUE, 0)

----------------------------------------------------------------------------
(* The local temporary files of append_to_file, write_to_file and read_file. *)

\* tempfile.NamedTemporaryFile(..., delete=False): temp_file = tf.name
Created(c, t) == t \cup {c}

\* a variant that removes the temporary file before "return True" only
UnlinkedOnSuccess(c, t, ok) == IF ok THEN t \ {c} ELSE t

\* finally: if temp_file and os.path.exists(temp_file): os.unlink(temp_file),
\* whether the try block ended well (ok) or not
Unlinked(c, t, ok) == t \ {c}

----------------------------------------------------------------------------
(* YandexDiskClient.ensure_folder_exists *)

\* current_path, as the path under the root folder
CurrentPath(f) == SubSeq(f.parts, 1, f.i)

\* a variant whose loop ends after its first part
EnsureFirstOnly(f) == [f EXCEPT !.pc = "done"]

\* the loop moves to the next part, or ends
EnsureNext(f) ==
    IF f.i < Len(f.parts) THEN [f EXCEPT !.i = @ + 1, !.pc = "exists"] ELSE [f EXCEPT !.pc = "done"]

\* a variant that creates every directory of the path, there or not
EnsureNeverSkips(p) == FALSE

\* line 60: if not self.client.exists(current_path): a path that is there is not created
EnsureSkips(p) == StoreExists(p)

\* line 60: self.client.exists(current_path)
EnsureExists(c) ==
    /\ At(c, "ensure_folder_exists", "exists")
    /\ UNCHANGED <<dirs, files, today, detector, temps, chat, sent>>
    /\ \E fail \in BOOLEAN :
         IF fail THEN Fail(c, Bool(FALSE))
         ELSE /\ UNCHANGED <<ret, cur, prev>>
              /\ IF EnsureSkips(CurrentPath(Top(c)))
                 THEN Goto(c, EnsureNext(Top(c)))
                 ELSE Goto(c, [Top(c) EXCEPT !.pc = "mkdir"])

\* line 61: self.client.mkdir(current_path); it raises when the transport fails,
\* when the parent is missing and when the path is taken
EnsureMkdir(c) ==
    /\ At(c, "ensure_folder_exists", "mkdir")
    /\ UNCHANGED <<files, today, detector, temps, chat, sent>>
    /\ \E fail \in BOOLEAN :
         IF fail \/ ~MkdirOk(CurrentPath(Top(c)))
         THEN /\ Return(c, Bool(FALSE))
              /\ Record(c, fail, 1)
              /\ UNCHANGED dirs
         ELSE /\ dirs' = dirs \cup {CurrentPath(Top(c))}
              /\ Goto(c, EnsureNext(Top(c)))
              /\ Record(c, FALSE, 1)
              /\ UNCHANGED <<ret, prev>>

\* line 64: return True
EnsureDone(c) ==
    /\ At(c, "ensure_folder_exists", "done")
    /\ UNCHANGED <<dirs, files, cur, today, detector, temps, chat, sent>>
    /\ Return(c, Bool(TRUE))

----------------------------------------------------------------------------
(* YandexDiskClient.append_to_file *)

\* a variant that opens the temporary file for writing, not for appending
Rewritten(old, content) == Encode(content)

\* a variant that puts the new text before the old content
Prepended(old, content) == Encode(content) \o old

\* a variant whose write is not flushed to the temporary file before the upload
AppendedUnflushed(old, content) == old

\* lines 122-123: the temporary file holds the old bytes; open(temp_file, 'a',
\* encoding='utf-8') and write(content) put the UTF-8 bytes of content after them
Appended(old, content) == old \o Encode(content)

\* lines 109-111: ensure_folder_exists(folder_path), its result ignored
AppendEnsure(c) ==
    /\ At(c, "append_to_file", "ensure")
    /\ UNCHANGED <<dirs, files, ret, cur, prev, today, detector, temps, chat, sent>>
    /\ IF JoinIsEmpty(Front(Top(c).path))
       THEN Goto(c, [Top(c) EXCEPT !.pc = "exists"])
       ELSE Call(c, [Top(c) EXCEPT !.pc = "exists"], EnsureFrame(Front(Top(c).path)))

\* lines 114-123: the temporary file is created; self.client.exists(full_path);
\* when the file is not there, content is written to the empty temporary file
AppendExists(c) ==
    /\ At(c, "append_to_file", "exists")
    /\ UNCHANGED <<dirs, files, today, detector, chat, sent>>
    /\ \E fail \in BOOLEAN :
         IF fail THEN Fail(c, Bool(FALSE)) /\ temps' = Unlinked(c, Created(c, temps), FALSE)
         ELSE /\ UNCHANGED <<ret, cur, prev>>
              /\ temps' = Created(c, temps)
              /\ IF StoreExists(Top(c).path)
                 THEN Goto(c, [Top(c) EXCEPT !.pc = "download"])
                 ELSE Goto(c, [Top(c) EXCEPT !.pc = "upload", !.tmp = Appended(<<>>, Top(c).content)])

\* lines 119-123: self.client.download(full_path, temp_file), then content is
\* appended to the temporary file
AppendDownload(c) ==
    /\ At(c, "append_to_file", "download")
    /\ UNCHANGED <<dirs, files, today, detector, chat, sent>>
    /\ \E fail \in BOOLEAN :
         IF fail \/ ~DownloadOk(Top(c).path)
         THEN Return(c, Bool(FALSE)) /\ Record(c, fail, 0) /\ temps' = Unlinked(c, temps, FALSE)
         ELSE /\ UNCHANGED <<ret, cur, prev, temps>>
              /\ Goto(c, [Top(c) EXCEPT !.pc = "upload",
                                        !.tmp = Appended(files[Top(c).path], Top(c).content)])

\* a variant in which an upload that fails has put the file there all the same
AppendUploadHalfway(c) ==
    /\ At(c, "append_to_file", "upload")
    /\ UNCHANGED <<dirs, today, detector, chat>>
    /\ \E fail \in BOOLEAN :
         /\ temps' = Unlinked(c, temps, ~fail)
         /\ IF ~UploadOk(Top(c).path)
            THEN Return(c, Bool(FALSE)) /\ Record(c, fail, 0) /\ UNCHANGED <<files, sent>>
            ELSE /\ files' = Uploaded(Top(c).path, Top(c).tmp)
                 /\ sent' = Sent("append", Top(c).path, Top(c).content)
                 /\ Return(c, Bool(~fail))
                 /\ Record(c, fail, 0)

\* lines 126-129: self.client.upload(temp_file, full_path, overwrite=True); return True
AppendUpload(c) ==
    /\ At(c, "append_to_file", "upload")
    /\ UNCHANGED <<dirs, today, detector, chat>>
    /\ \E fail \in BOOLEAN :
         IF fail \/ ~UploadOk(Top(c).path)
         THEN /\ Return(c, Bool(FALSE)) /\ Record(c, fail, 0) /\ UNCHANGED <<files, sent>>
              /\ temps' = Unlinked(c, temps, FALSE)
         ELSE /\ files' = Uploaded(Top(c).path, Top(c).tmp)
              /\ temps' = Unlinked(c, temps, TRUE)
              /\ sent' = Sent("append", Top(c).path, Top(c).content)
              /\ Return(c, Bool(TRUE))
              /\ UNCHANGED cur

----------------------------------------------------------------------------
(* YandexDiskClient.write_to_file *)

\* lines 156-158: ensure_folder_exists(folder_path), its result ignored
WriteEnsure(c) ==
    /\ At(c, "write_to_file", "ensure")
    /\ UNCHANGED <<dirs, files, ret, cur, prev, today, detector, temps, chat, sent>>
    /\ IF JoinIsEmpty(Front(Top(c).path))
       THEN Goto(c, [Top(c) EXCEPT !.pc = "upload"])
       ELSE Call(c, [Top(c) EXCEPT !.pc = "upload"], EnsureFrame(Front(Top(c).path)))

\* lines 161-170: content is written to the temporary file;
\* self.client.upload(temp_file, full_path, overwrite=True); return True
WriteUpload(c) ==
    /\ At(c, "write_to_file", "upload")
    /\ UNCHANGED <<dirs, today, detector, chat>>
    /\ \E fail \in BOOLEAN :
         IF fail \/ ~UploadOk(Top(c).path)
         THEN /\ Return(c, Bool(FALSE)) /\ Record(c, fail, 0) /\ UNCHANGED <<files, sent>>
              /\ temps' = Unlinked(c, Created(c, temps), FALSE)
         ELSE /\ files' = Uploaded(Top(c).path, Encode(Top(c).content))
              /\ temps' = Unlinked(c, Created(c, temps), TRUE)
              /\ sent' = Sent("write", Top(c).path, Top(c).content)
              /\ Return(c, Bool(TRUE))
              /\ UNCHANGED cur

----------------------------------------------------------------------------
(* YandexDiskClient.read_file *)

\* lines 196-197: self.client.exists(full_path)
ReadExists(c) ==
    /\ At(c, "read_file", "exists")
    /\ UNCHANGED <<dirs, files, today, detector, temps, chat, sent>>
    /\ \E fail \in BOOLEAN :
         IF fail THEN Fail(c, None)
         ELSE IF StoreExists(Top(c).path)
         THEN Goto(c, [Top(c) EXCEPT !.pc = "download"]) /\ UNCHANGED <<ret, cur, prev>>
         ELSE Return(c, None) /\ UNCHANGED cur

\* lines 200-241: the temporary file is created; self.client.download(full_path,
\* temp_file); the bytes are decoded; the temporary file is removed
ReadDownload(c) ==
    /\ At(c, "read_file", "download")
    /\ UNCHANGED <<dirs, files, today, detector, chat, sent>>
    /\ \E fail \in BOOLEAN :
         IF fail \/ ~DownloadOk(Top(c).path)
         THEN Return(c, None) /\ Record(c, fail, 0) /\ temps' = Unlinked(c, Created(c, temps), FALSE)
         ELSE /\ \E content \in ReadDecodings(files[Top(c).path]) : Return(c, Text(content))
              /\ temps' = Unlinked(c, Created(c, temps), TRUE)
              /\ UNCHANGED cur

----------------------------------------------------------------------------
(* YandexDiskClient.list_files *)

\* lines 311-312: self.client.exists(full_path)
ListExists(c) ==
    /\ At(c, "list_files", "exists")
    /\ UNCHANGED <<dirs, files, today, detector, temps, chat, sent>>
    /\ \E fail \in BOOLEAN :
         IF fail THEN Fail(c, Names({}))
         ELSE IF StoreExists(Top(c).path)
         THEN Goto(c, [Top(c) EXCEPT !.pc = "listdir"]) /\ UNCHANGED <<ret, cur, prev>>
         ELSE Return(c, Names({})) /\ UNCHANGED cur

\* line 313: self.client.listdir(full_path); it raises on a file
ListListdir(c) ==
    /\ At(c, "list_files", "listdir")
    /\ UNCHANGED <<dirs, files, today, detector, temps, chat, sent>>
    /\ \E fail \in BOOLEAN :
         IF fail \/ Top(c).path \notin dirs
         THEN Return(c, Names({})) /\ Record(c, fail, 0)
         ELSE Return(c, Names(Listing(Top(c).path))) /\ UNCHANGED cur

----------------------------------------------------------------------------
(* Dates, and the texts and paths made of them. *)

IsLeap(y) == (y % 4 = 0 /\ y % 100 # 0) \/ y % 400 = 0

DaysIn(y, m) ==
    IF m = 2 THEN (IF IsLeap(y) THEN 29 ELSE 28)
    ELSE IF m \in {4, 6, 9, 11} THEN 30 ELSE 31

\* the calendar date after date
NextDay(date) ==
    IF date.d < DaysIn(date.y, date.m) THEN [date EXCEPT !.d = @ + 1]
    ELSE IF date.m < 12 THEN [date EXCEPT !.m = @ + 1, !.d = 1]
    ELSE [y |-> date.y + 1, m |-> 1, d |-> 1]

\* the calendar date before date
PrevDay(date) ==
    IF date.d > 1 THEN [date EXCEPT !.d = @ - 1]
    ELSE IF date.m > 1 THEN [date EXCEPT !.m = @ - 1, !.d = DaysIn(date.y, date.m - 1)]
    ELSE [y |-> date.y - 1, m |-> 12, d |-> 31]

\* strftime's %m, %d, %H, %M, %S and %Y, as text
Digits2(n) == <<48 + (n \div 10), 48 + (n % 10)>>
Digits4(n) == Digits2(n \div 100) \o Digits2(n % 100)

\* the same, as the segments of a path
TwoDigits ==
    <<"01", "02", "03", "04", "05", "06", "07", "08", "09", "10", "11", "12", "13", "14", "15", "16",
      "17", "18", "19", "20", "21", "22", "23", "24", "25", "26", "27", "28", "29", "30", "31">>
YearSegment(y) == CASE y = 2025 -> "2025" [] y = 2026 -> "2026" [] y = 2027 -> "2027"

\* f"{profile_name}/logs/{date_path}" and f"{profile_name}/logs/{date_path}/log.txt",
\* date_path = strftime("%Y/%m/%d")
LogDir(profile, date) ==
    <<profile, "logs", YearSegment(date.y), TwoDigits[date.m], TwoDigits[date.d]>>
LogPath(profile, date) == LogDir(profile, date) \o <<"log.txt">>

\* line 144: f"[{time_str}] {role}: {text}\n", time_str = strftime("%H:%M:%S")
LogEntry(time, role, text) ==
    <<91>> \o Digits2(time[1]) \o <<58>> \o Digits2(time[2]) \o <<58>> \o Digits2(time[3])
        \o <<93, 32>> \o role \o <<58, 32>> \o text \o <<10>>

\* "] ДОБАВЛЕНО:\n"
AddedLabel == <<93, 32, 1044, 1054, 1041, 1040, 1042, 1051, 1045, 1053, 1054, 58, 10>>

\* line 210: f"\n\n[{timestamp}] ДОБАВЛЕНО:\n{text}", timestamp = strftime("%Y-%m-%d %H:%M:%S")
LibraryEntry(date, time, text) ==
    <<10, 10, 91>> \o Digits4(date.y) \o <<45>> \o Digits2(date.m) \o <<45>> \o Digits2(date.d)
        \o <<32>> \o Digits2(time[1]) \o <<58>> \o Digits2(time[2]) \o <<58>> \o Digits2(time[3])
        \o AddedLabel \o text

----------------------------------------------------------------------------
(* Lines of text. *)

\* ch.isspace()
IsSpace(cp) ==
    \/ (9 <= cp /\ cp <= 13) \/ (28 <= cp /\ cp <= 32) \/ cp \in {133, 160, 5760}
    \/ (8192 <= cp /\ cp <= 8202) \/ cp \in {8232, 8233, 8239, 8287, 12288}

\* text.strip()
RECURSIVE LStrip(_)
LStrip(text) == IF text # <<>> /\ IsSpace(Head(text)) THEN LStrip(Tail(text)) ELSE text
RECURSIVE RStrip(_)
RStrip(text) == IF text # <<>> /\ IsSpace(Last(text)) THEN RStrip(Front(text)) ELSE text
Strip(text) == RStrip(LStrip(text))

\* text.split('\n')
RECURSIVE SplitLines(_)
SplitLines(text) ==
    IF \A i \in 1..Len(text) : text[i] # 10 THEN <<text>>
    ELSE LET n == CHOOSE i \in 1..Len(text) : text[i] = 10 /\ \A j \in 1..(i - 1) : text[j] # 10
         IN  <<SubSeq(text, 1, n - 1)>> \o SplitLines(SubSeq(text, n + 1, Len(text)))

\* sep.join(parts)
RECURSIVE Join(_, _)
Join(sep, parts) ==
    IF parts = <<>> THEN <<>>
    ELSE IF Len(parts) = 1 THEN parts[1]
    ELSE parts[1] \o sep \o Join(sep, Tail(parts))

\* line 190: lines[-limit:] if len(lines) > limit else lines; lines[-0:] is all of lines
LastLines(lines, limit) ==
    IF Len(lines) > limit /\ limit > 0 THEN SubSeq(lines, Len(lines) - limit + 1, Len(lines))
    ELSE lines

\* lines 189-192
RecentOf(content, limit) == Join(<<10>>, LastLines(SplitLines(Strip(content)), limit))

----------------------------------------------------------------------------
(* ProfileManager.get_profile_files *)

\* line 21
PROFILE_FILES == <<"key.txt", "king.txt", "rules.txt", "library.txt", "welcome.txt">>

\* line 53: file_name.replace('.txt', '')
KeyOf(file_name) ==
    CASE file_name = "key.txt" -> "key"
      [] file_name = "king.txt" -> "king"
      [] file_name = "rules.txt" -> "rules"
      [] file_name = "library.txt" -> "library"
      [] file_name = "welcome.txt" -> "welcome"

\* files[key] = value
Put(m, key, value) == [x \in DOMAIN m \cup {key} |-> IF x = key THEN value ELSE m[x]]

\* files.get(key)
Get(m, key) == IF key \in DOMAIN m THEN m[key] ELSE <<>>

\* a variant that leaves the key of an asset it could not read out of the mapping
StoredIfRead(m, key, o) == IF Truthy(o) THEN Put(m, key, o.v) ELSE m

\* lines 58-63: files[key] = content if content, else files[key] = ""
Stored(m, key, o) == Put(m, key, IF Truthy(o) THEN o.v ELSE <<>>)

ProfileFilesFrame(profile) ==
    [fn |-> "get_profile_files", path |-> <<profile>>, n |-> 1, files |-> <<>>, pc |-> "read"]

\* lines 52-56: self.disk.read_file(f"{profile_name}/{file_name}")
ProfileFilesRead(c) ==
    /\ At(c, "get_profile_files", "read")
    /\ UNCHANGED <<dirs, files, ret, cur, prev, today, detector, temps, chat, sent>>
    /\ Call(c, [Top(c) EXCEPT !.pc = "store"], ReadFrame(Top(c).path \o <<PROFILE_FILES[Top(c).n]>>))

\* lines 58-63, and lines 75-80 after the last file
ProfileFilesStore(c) ==
    /\ At(c, "get_profile_files", "store")
    /\ UNCHANGED <<dirs, files, cur, today, detector, temps, chat, sent>>
    /\ LET f == Top(c)
           m == Stored(f.files, KeyOf(PROFILE_FILES[f.n]), ret[c])
       IN  IF f.n < Len(PROFILE_FILES)
           THEN Goto(c, [f EXCEPT !.n = @ + 1, !.files = m, !.pc = "read"]) /\ UNCHANGED <<ret, prev>>
           ELSE Return(c, Map(m))

----------------------------------------------------------------------------
(* ProfileManager.get_recent_messages *)

NoDate == [y |-> 0, m |-> 0, d |-> 0]

RecentFrame(profile, limit) ==
    [fn |-> "get_recent_messages", path |-> <<profile>>, limit |-> limit,
     today |-> NoDate, yesterday |-> NoDate, pc |-> "today"]

\* the last date of the model's calendar: midnight does not pass on it
Horizon == [y |-> 2026, m |-> 3, d |-> 1]

\* what the next datetime.now() may return: the same date, or the next when midnight has passed
Now == IF today = Horizon THEN {today} ELSE {today, NextDay(today)}

\* the method running on top raises e
Raise(c, e) == Return(c, Raised(e))

\* line 171: today = datetime.now()
RecentToday(c) ==
    /\ At(c, "get_recent_messages", "today")
    /\ UNCHANGED <<dirs, files, ret, cur, prev, today, detector, temps, chat, sent>>
    /\ Goto(c, [Top(c) EXCEPT !.today = today, !.pc = "yesterday"])

\* lines 172-177: yesterday = datetime.now().replace(day=today.day - 1), which raises
\* ValueError when the month has no such day; then today's log is read
RecentYesterday(c) ==
    /\ At(c, "get_recent_messages", "yesterday")
    /\ UNCHANGED <<dirs, files, cur, detector, temps, chat, sent>>
    /\ \E now \in Now :
         /\ today' = now
         /\ LET day == Top(c).today.d - 1
            IN  IF day < 1 \/ day > DaysIn(now.y, now.m)
                THEN Raise(c, "ValueError")
                ELSE /\ Call(c, [Top(c) EXCEPT !.yesterday = [now EXCEPT !.d = day], !.pc = "read_today"],
                             ReadFrame(LogPath(Top(c).path[1], Top(c).today)))
                     /\ UNCHANGED <<ret, prev>>

\* lines 180-192: today's content, or yesterday's log is read
RecentReadToday(c) ==
    /\ At(c, "get_recent_messages", "read_today")
    /\ UNCHANGED <<dirs, files, cur, today, detector, temps, chat, sent>>
    /\ IF Truthy(ret[c])
       THEN Return(c, Text(RecentOf(ret[c].v, Top(c).limit)))
       ELSE /\ Call(c, [Top(c) EXCEPT !.pc = "read_yesterday"],
                    ReadFrame(LogPath(Top(c).path[1], Top(c).yesterday)))
            /\ UNCHANGED <<ret, prev>>

\* lines 185-192
RecentReadYesterday(c) ==
    /\ At(c, "get_recent_messages", "read_yesterday")
    /\ UNCHANGED <<dirs, files, cur, today, detector, temps, chat, sent>>
    /\ IF Truthy(ret[c])
       THEN Return(c, Text(RecentOf(ret[c].v, Top(c).limit)))
       ELSE Return(c, Text(<<>>))

----------------------------------------------------------------------------
(* ProfileManager.build_context *)

\* "ТЫ — ЛИЧНОСТЬ:\n", "ПРАВИЛА ОБЩЕНИЯ:\n", "ТВОИ ЗНАНИЯ И ОПЫТ:\n", "ПОСЛЕДНИЕ СООБЩЕНИЯ В ЧАТЕ:\n"
KingLabel    == <<1058, 1067, 32, 8212, 32, 1051, 1048, 1063, 1053, 1054, 1057, 1058, 1068, 58, 10>>
RulesLabel   == <<1055, 1056, 1040, 1042, 1048, 1051, 1040, 32, 1054, 1041, 1065, 1045, 1053, 1048, 1071, 58, 10>>
LibraryLabel == <<1058, 1042, 1054, 1048, 32, 1047, 1053, 1040, 1053, 1048, 1071, 32, 1048, 32, 1054, 1055,
                  1067, 1058, 58, 10>>
RecentLabel  == <<1055, 1054, 1057, 1051, 1045, 1044, 1053, 1048, 1045, 32, 1057, 1054, 1054, 1041, 1065,
                  1045, 1053, 1048, 1071, 32, 1042, 32, 1063, 1040, 1058, 1045, 58, 10>>

\* parts.append(f"{label}{text}\n") if text
Section(label, text) == IF text = <<>> THEN <<>> ELSE <<label \o text \o <<10>>>>

ContextFrame(profile, limit) ==
    [fn |-> "build_context", path |-> <<profile>>, limit |-> limit, parts |-> <<>>, pc |-> "files"]

\* line 97: files = self.get_profile_files(profile_name)
ContextFiles(c) ==
    /\ At(c, "build_context", "files")
    /\ UNCHANGED <<dirs, files, ret, cur, prev, today, detector, temps, chat, sent>>
    /\ Call(c, [Top(c) EXCEPT !.pc = "assets"], ProfileFilesFrame(Top(c).path[1]))

\* lines 99-114: the sections of king, rules and library; self.get_recent_messages(profile_name, limit)
ContextAssets(c) ==
    /\ At(c, "build_context", "assets")
    /\ UNCHANGED <<dirs, files, ret, cur, prev, today, detector, temps, chat, sent>>
    /\ LET m == ret[c].v
           parts == Section(KingLabel, Get(m, "king")) \o Section(RulesLabel, Get(m, "rules"))
                        \o Section(LibraryLabel, Get(m, "library"))
       IN  Call(c, [Top(c) EXCEPT !.parts = parts, !.pc = "recent"],
                RecentFrame(Top(c).path[1], Top(c).limit))

\* lines 115-118: the section of the recent messages; return "\n".join(parts)
ContextRecent(c) ==
    /\ At(c, "build_context", "recent")
    /\ UNCHANGED <<dirs, files, cur, today, detector, temps, chat, sent>>
    /\ Return(c, Text(Join(<<10>>, Top(c).parts \o Section(RecentLabel, ret[c].v))))

\* build_context has no handler: what get_recent_messages raises leaves it too
ContextRaise(c) ==
    /\ ~Idle(c) /\ Top(c).fn = "build_context" /\ ret[c].k = "raise"
    /\ UNCHANGED <<dirs, files, cur, today, detector, temps, chat, sent>>
    /\ Raise(c, ret[c].v)

----------------------------------------------------------------------------
(* ProfileManager.save_message *)

SaveFrame(profile, role, text, date, time) ==
    [fn |-> "save_message", path |-> <<profile>>, role |-> role, text |-> text,
     date |-> date, time |-> time, pc |-> "ensure"]

\* lines 135-140: self.disk.ensure_folder_exists(folder_path)
SaveEnsure(c) ==
    /\ At(c, "save_message", "ensure")
    /\ UNCHANGED <<dirs, files, ret, cur, prev, today, detector, temps, chat, sent>>
    /\ Call(c, [Top(c) EXCEPT !.pc = "append"], EnsureFrame(LogDir(Top(c).path[1], Top(c).date)))

\* lines 143-147: success = self.disk.append_to_file(log_path, log_entry)
SaveAppend(c) ==
    /\ At(c, "save_message", "append")
    /\ UNCHANGED <<dirs, files, ret, cur, prev, today, detector, temps, chat, sent>>
    /\ Call(c, [Top(c) EXCEPT !.pc = "done"],
            AppendFrame(LogPath(Top(c).path[1], Top(c).date),
                        LogEntry(Top(c).time, Top(c).role, Top(c).text)))

\* lines 149-152: the result is logged; the method returns None
SaveDone(c) ==
    /\ At(c, "save_message", "done")
    /\ UNCHANGED <<dirs, files, cur, today, detector, temps, chat, sent>>
    /\ Return(c, None)

----------------------------------------------------------------------------
(* ProfileManager.add_to_library *)

LibraryFrame(profile, text) ==
    [fn |-> "add_to_library", path |-> <<profile>>, text |-> text, stamp |-> <<>>, pc |-> "append"]

\* the times of day datetime.now() may give
Times == {<<23, 59, 59>>}

\* lines 206-212: success = self.disk.append_to_file(path, entry)
LibraryAppend(c) ==
    /\ At(c, "add_to_library", "append")
    /\ UNCHANGED <<dirs, files, ret, cur, prev, today, detector, temps, chat, sent>>
    /\ \E time \in Times :
         Call(c, [Top(c) EXCEPT !.stamp = <<today, time>>, !.pc = "done"],
              AppendFrame(Top(c).path \o <<"library.txt">>, LibraryEntry(today, time, Top(c).text)))

\* lines 214-219: return True if success else False; the text and the time of
\* an addition that succeeded are kept
LibraryDone(c) ==
    /\ At(c, "add_to_library", "done")
    /\ UNCHANGED <<dirs, files, cur, today, detector, temps, chat>>
    /\ sent' = IF IsTrue(ret[c])
               THEN [sent EXCEPT !.added = Append(@, <<Top(c).text, Top(c).stamp[1], Top(c).stamp[2]>>)]
               ELSE sent
    /\ Return(c, Bool(IsTrue(ret[c])))

----------------------------------------------------------------------------
(* The public calls and the states they start from. *)

\* of the public call in progress: the method, its path and text, its
\* activation as it began, the date and the store it started from, what the
\* call before it ensured, the store calls of which method (and path) have
\* raised, and how many mkdir calls it has issued
NoCall == [op |-> "none", path |-> <<>>, text |-> <<>>, frame |-> [fn |-> "none"], date |-> NoDate,
           preDirs |-> {}, preFiles |-> <<>>, before |-> NoEnsured, faults |-> {}, mkdirs |-> 0]

\* caller c, idle, calls a public method: frame is its activation
Invoke(c, frame, text) ==
    /\ stack' = [stack EXCEPT ![c] = <<frame>>]
    /\ ret' = [ret EXCEPT ![c] = NoOutcome]
    /\ cur' = [cur EXCEPT ![c] = [op |-> frame.fn, path |-> frame.path, text |-> text,
                                  frame |-> frame, date |-> today,
                                  preDirs |-> dirs, preFiles |-> files,
                                  before |-> prev[c], faults |-> {}, mkdirs |-> 0]]
    /\ UNCHANGED <<dirs, files, prev, today, detector, temps, chat, sent>>

\* the public call of caller c has returned
Done(c) == Idle(c) /\ ret[c].k # "idle"

Root == <<>>

\* the paths under the root folder of the directories a path names
Prefixes(path) == {SubSeq(path, 1, n) : n \in 0..Len(path)}

\* a store in which every directory and every file lies in a directory
WellFormed(ds, fs) ==
    /\ \A d \in ds : d # Root => Front(d) \in ds
    /\ \A p \in DOMAIN fs : Front(p) \in ds /\ p \notin ds

\* the functions from a subset of paths to contents
Stores(paths, contents) == UNION {[ps -> contents] : ps \in SUBSET paths}

(* The remote paths of the adapter's callers: the folder of a day's log,   *)
(* a path with an empty segment ("Mira//logs"), the empty path, and files  *)
(* in the root folder and below it.                                        *)
LogDay      == [y |-> 2026, m |-> 3, d |-> 2]
FolderPaths == {LogDir("Mira", LogDay), <<"Mira", "", "logs">>, <<"Mira">>, <<"">>}
FilePaths   == {<<"notes.txt">>, LogPath("Mira", LogDay)}
AllDirs     == UNION {Prefixes(NonEmpty(p)) : p \in FolderPaths}

\* "П" (two bytes in UTF-8: 208, 159), "A" and "B"
TextP == <<1055>>
TextA == <<65>>
TextB == <<66>>

\* what each caller appends
Texts == <<TextA, TextB>>

\* "user"
UserRole == <<117, 115, 101, 114>>

InitCallers ==
    /\ stack = [c \in Callers |-> <<>>]
    /\ ret = [c \in Callers |-> NoOutcome]
    /\ cur = [c \in Callers |-> NoCall]
    /\ prev = [c \in Callers |-> NoEnsured]
    /\ sent = [base |-> files, log |-> <<>>, added |-> <<>>]
    /\ temps = {}
    /\ user_profiles = <<>>
    /\ requests = <<>>
    /\ replies = <<>>

\* any directories, with the files some earlier run left
Init ==
    /\ dirs \in SUBSET AllDirs
    /\ files \in Stores(FilePaths, {Encode(TextP)})
    /\ WellFormed(dirs, files)
    /\ InitCallers
    /\ today = LogDay
    /\ detector = FALSE

CanWrite == Len(sent.log) < MaxUploads

InvokeEnsure(c) == \E p \in FolderPaths : Idle(c) /\ Invoke(c, EnsureFrame(p), <<>>)
InvokeAppend(c) == CanWrite /\ \E p \in FilePaths : Idle(c) /\ Invoke(c, AppendFrame(p, Texts[c]), Texts[c])
InvokeWrite(c)  == CanWrite /\ \E p \in FilePaths : Idle(c) /\ Invoke(c, WriteFrame(p, TextA), TextA)
InvokeRead(c)   == \E p \in FilePaths : Idle(c) /\ Invoke(c, ReadFrame(p), <<>>)
InvokeList(c)   == \E p \in {Root, <<"Mira">>} : Idle(c) /\ Invoke(c, ListFrame(p), <<>>)
InvokeSave(c)   ==
    CanWrite /\ Idle(c) /\ Invoke(c, SaveFrame("Mira", UserRole, TextP, LogDay, <<9, 5, 0>>), TextP)

\* the steps of ensure_folder_exists and append_to_file
Appending(c) ==
    \/ EnsureExists(c) \/ EnsureMkdir(c) \/ EnsureDone(c)
    \/ AppendEnsure(c) \/ AppendExists(c) \/ AppendDownload(c) \/ AppendUpload(c)

\* the steps of the methods of YandexDiskClient
Adapter(c) ==
    \/ Appending(c)
    \/ WriteEnsure(c) \/ WriteUpload(c)
    \/ ReadExists(c) \/ ReadDownload(c)
    \/ ListExists(c) \/ ListListdir(c)

\* the steps of ProfileManager.save_message
Save(c) == SaveEnsure(c) \/ SaveAppend(c) \/ SaveDone(c)

\* one caller, one public call at a time, of the adapter or of save_message
Next ==
    \/ InvokeEnsure(1) \/ InvokeAppend(1) \/ InvokeWrite(1) \/ InvokeRead(1) \/ InvokeList(1)
    \/ InvokeSave(1)
    \/ Adapter(1) \/ Save(1)

Spec == Init /\ [][Next]_vars

----------------------------------------------------------------------------
(* The adapter with one caller. *)

\* the content of the file at path p in store fs; no file: no bytes
ContentIn(fs, p) == IF p \in DOMAIN fs THEN fs[p] ELSE <<>>

AdapterOps == {"ensure_folder_exists", "append_to_file", "write_to_file", "read_file", "list_files"}

\* C1: while the caller runs append_to_file or save_message, whatever store call
\* fails, every step leaves each file of the store in place with its old content
\* as a prefix of its new content: a log is never truncated, rewritten or reordered.
AppendOnly ==
    [][cur'[1].op \in {"append_to_file", "save_message"}
         => \A p \in DOMAIN files : p \in DOMAIN files' /\ IsPrefix(files[p], files'[p])]_vars

\* a save_message has added its entry to a log that held an earlier message
AppendOnlyWitness ==
    /\ Done(1) /\ cur[1].op = "save_message"
    /\ ContentIn(cur[1].preFiles, LogPath("Mira", LogDay)) # <<>>
    /\ Len(files[LogPath("Mira", LogDay)]) > Len(cur[1].preFiles[LogPath("Mira", LogDay)])

\* C2: when append_to_file(path, text) returns True and no other caller is
\* active, the file at path holds the bytes it held when the call began (none
\* when it did not exist) followed by the UTF-8 bytes of text.
AppendResult ==
    (Done(1) /\ cur[1].op = "append_to_file" /\ IsTrue(ret[1]))
        => /\ cur[1].path \in DOMAIN files
           /\ files[cur[1].path] = ContentIn(cur[1].preFiles, cur[1].path) \o Encode(cur[1].text)

\* an append to a file that had content has returned True
AppendResultWitness ==
    /\ Done(1) /\ cur[1].op = "append_to_file" /\ IsTrue(ret[1])
    /\ ContentIn(cur[1].preFiles, cur[1].path) # <<>>

\* the directories a path names, under the root folder
NamedDirs(path) == {SubSeq(NonEmpty(path), 1, n) : n \in 1..Len(NonEmpty(path))}

EnsureIdempotent ==
    (Done(1) /\ cur[1].op = "ensure_folder_exists" /\ cur[1].before = cur[1].path)
        => cur[1].mkdirs = 0 /\ dirs = cur[1].preDirs

\* the second of two calls in a row on a path of several directories has returned True
EnsureIdempotentWitness ==
    /\ Done(1) /\ cur[1].op = "ensure_folder_exists" /\ cur[1].before = cur[1].path
    /\ IsTrue(ret[1]) /\ Len(NonEmpty(cur[1].path)) >= 2

\* the value by which a method of the adapter reports failure
IsFailureValue(op, o) ==
    CASE op \in {"ensure_folder_exists", "append_to_file", "write_to_file"} -> IsFalse(o)
      [] op = "read_file" -> o.k = "none"
      [] op = "list_files" -> o.k = "list" /\ o.v = {}

\* a store call of the public method itself has raised, not one of a method it calls
OwnFault(c) == \E s \in cur[c].faults : s[1] = cur[c].op

\* C7 as stated: when any store call fails during a method of the adapter, the
\* method does not raise and returns its failure value.
FailureValueAlways ==
    (Done(1) /\ cur[1].op \in AdapterOps /\ cur[1].faults # {})
        => ret[1].k # "raise" /\ IsFailureValue(cur[1].op, ret[1])

\* C7 amended: no method of the adapter raises, and it returns its failure value
\* when a store call of its own fails; append_to_file and write_to_file ignore
\* the result of their ensure_folder_exists step and go on.
FailureValueOwn ==
    (Done(1) /\ cur[1].op \in AdapterOps)
        => /\ ret[1].k # "raise"
           /\ OwnFault(1) => IsFailureValue(cur[1].op, ret[1])

\* a download of read_file has failed and the call has returned
FailureValueWitness ==
    /\ Done(1) /\ cur[1].op = "read_file"
    /\ <<"read_file", cur[1].path>> \in cur[1].faults
    /\ cur[1].path \in DOMAIN files

\* caller c is inside append_to_file, between the creation of its temporary
\* file and its return
Staging(c) == ~Idle(c) /\ Top(c).fn = "append_to_file" /\ Top(c).pc \in {"download", "upload"}

\* C18: a temporary file of a caller is on the local disk only while the caller
\* is inside the method that created it: when append_to_file, write_to_file or
\* read_file has returned, with True or a text, after a store call that failed
\* at any step, or to a method that called it, no temporary file remains.
TempFilesScoped == \A c \in Callers : c \in temps => Staging(c)

\* append_to_file has returned False after a store call of its own failed,
\* its temporary file created
TempFilesScopedWitness ==
    /\ Done(1) /\ cur[1].op = "append_to_file" /\ IsFalse(ret[1])
    /\ <<"append_to_file", cur[1].path>> \in cur[1].faults

\* C25: when append_to_file has returned False, every file of the store has
\* the content it had before the call; directories may have been created.
FailedAppendKeepsFiles ==
    (Done(1) /\ cur[1].op = "append_to_file" /\ IsFalse(ret[1])) => files = cur[1].preFiles

\* an append has failed in a store call of its own, in a store with files,
\* after its ensure_folder_exists step had created directories
FailedAppendKeepsFilesWitness ==
    /\ Done(1) /\ cur[1].op = "append_to_file" /\ IsFalse(ret[1])
    /\ OwnFault(1)
    /\ files # <<>>
    /\ dirs # cur[1].preDirs

----------------------------------------------------------------------------
(* Two callers that append: handlers of two messages, run concurrently. *)

\* the files they append to: one in the root folder, one in a folder below it
RacePaths == {<<"notes.txt">>, <<"Mira", "notes.txt">>}

\* the folder is there or not, with the files some earlier run left
InitRace ==
    /\ dirs \in {{Root}, {Root, <<"Mira">>}}
    /\ files \in Stores(RacePaths, {Encode(TextP)})
    /\ WellFormed(dirs, files)
    /\ InitCallers
    /\ today = LogDay
    /\ detector = FALSE

\* both callers call append_to_file whenever they are idle
RaceAppend(c) ==
    CanWrite /\ \E p \in RacePaths : Idle(c) /\ Invoke(c, AppendFrame(p, Texts[c]), Texts[c])

NextRace == \E c \in Callers : RaceAppend(c) \/ Appending(c)

SpecRace == InitRace /\ [][NextRace]_vars

\* the entries of the log of uploads on the file at p
On(l, p) == SelectSeq(l, LAMBDA e : e[2] = p)

\* the bytes of the texts of some of the entries of l, in order
RECURSIVE Selections(_)
Selections(l) ==
    IF l = <<>> THEN {<<>>}
    ELSE LET rest == Selections(Tail(l)) IN rest \cup {Encode(Head(l)[3]) \o x : x \in rest}

\* the bytes of the text of the last entry of l after some of the earlier ones
KeptLast(l) ==
    IF l = <<>> THEN {<<>>} ELSE {x \o Encode(Last(l)[3]) : x \in Selections(Front(l))}

\* C3: append_to_file is not atomic.  With two callers appending, a file holds
\* what it began with, then the texts of some of the appends that returned True
\* in the order of their uploads, the last upload's text among them: the text of
\* any earlier successful append may be missing.
LastWriterWins ==
    \A p \in RacePaths :
        ContentIn(files, p) \in {ContentIn(sent.base, p) \o x : x \in KeptLast(On(sent.log, p))}

\* a lost update: both callers appended to one file, both calls returned True,
\* and the file holds the text of one of them only
LostUpdate ==
    /\ Done(1) /\ Done(2) /\ IsTrue(ret[1]) /\ IsTrue(ret[2])
    /\ cur[1].op = "append_to_file" /\ cur[2].op = "append_to_file"
    /\ cur[1].path = cur[2].path
    /\ Len(sent.log) = 2
    /\ ContentIn(sent.base, cur[1].path) # <<>>
    /\ \E c \in Callers :
         files[cur[1].path] = ContentIn(sent.base, cur[1].path) \o Encode(Texts[c])

----------------------------------------------------------------------------
(* Two callers that append, one writer per file at a time. *)

\* a variant without the discipline: any caller appends to any file at any time
OwnsAny(c, p) == TRUE

\* no other caller is running an append to the file at p
Owns(c, p) == \A d \in Callers \ {c} : Idle(d) \/ cur[d].path # p

\* a caller calls append_to_file on a file no other caller is appending to
OwnedAppend(c) ==
    CanWrite /\ \E p \in RacePaths :
        Idle(c) /\ Owns(c, p) /\ Invoke(c, AppendFrame(p, Texts[c]), Texts[c])

NextOwned == \E c \in Callers : OwnedAppend(c) \/ Appending(c)

SpecOwned == InitRace /\ [][NextOwned]_vars

\* the bytes of the texts of the entries of l on the file at p, in order
RECURSIVE Added(_, _)
Added(l, p) ==
    IF l = <<>> THEN <<>>
    ELSE (IF Head(l)[2] = p THEN Encode(Head(l)[3]) ELSE <<>>) \o Added(Tail(l), p)

\* C4: when at most one append to a file runs at a time, the file holds what it
\* began with and then the text of every append that returned True, in the order
\* of the calls, also while appends to other files run.
NothingLost ==
    \A p \in RacePaths : ContentIn(files, p) = ContentIn(sent.base, p) \o Added(sent.log, p)

\* two appends to different files that ran at the same time (both began from
\* the same store) have both returned True
NothingLostWitness ==
    /\ Done(1) /\ Done(2) /\ IsTrue(ret[1]) /\ IsTrue(ret[2])
    /\ Len(sent.log) = 2 /\ sent.log[1][2] # sent.log[2][2]
    /\ cur[1].preFiles = cur[2].preFiles

----------------------------------------------------------------------------
(* The profile manager with one caller. *)

\* the steps of get_profile_files and of the read_file it calls
ProfileFiles(c) ==
    \/ ProfileFilesRead(c) \/ ProfileFilesStore(c)
    \/ ReadExists(c) \/ ReadDownload(c)

\* the steps of the methods of ProfileManager and of the adapter's methods they call
Manager(c) ==
    \/ ProfileFiles(c)
    \/ RecentToday(c) \/ RecentYesterday(c) \/ RecentReadToday(c) \/ RecentReadYesterday(c)
    \/ ContextFiles(c) \/ ContextAssets(c) \/ ContextRecent(c) \/ ContextRaise(c)
    \/ Save(c)
    \/ LibraryAppend(c) \/ LibraryDone(c)
    \/ Appending(c)

\* the asset files of profile "Mira", each with a text of its own: "Б", "В", "Г", "Д", "Е"
Assets       == 1..Len(PROFILE_FILES)
AssetPath(n) == <<"Mira", PROFILE_FILES[n]>>
AssetText(n) == <<1040 + n>>

\* bytes that are not UTF-8: 0xFF
Corrupt == <<255>>

\* the asset files without those of missing, the one of bad holding Corrupt (bad = 0: none)
AssetFiles(missing, bad) ==
    [p \in {AssetPath(n) : n \in Assets \ missing} |->
        LET n == CHOOSE k \in Assets : AssetPath(k) = p
        IN  IF n = bad THEN Corrupt ELSE Encode(AssetText(n))]

\* which assets a profile may lack
MissingSets == {{}, {2}, {1, 4}, Assets}

\* the directories the files of store fs lie in
DirsOf(fs) == {Root} \cup UNION {Prefixes(Front(p)) : p \in DOMAIN fs}

\* a profile with some assets missing, or with one asset corrupted
InitAssets ==
    /\ today = LogDay
    /\ detector \in BOOLEAN
    /\ \/ \E missing \in MissingSets : files = AssetFiles(missing, 0)
       \/ \E bad \in Assets : files = AssetFiles({}, bad)
    /\ dirs = DirsOf(files)
    /\ InitCallers

CoreProfileFiles(c) == Idle(c) /\ Invoke(c, ProfileFilesFrame("Mira"), <<>>)

\* one caller calls get_profile_files
NextAssets == CoreProfileFiles(1) \/ ProfileFiles(1)

SpecAssets == InitAssets /\ [][NextAssets]_vars

\* the keys of the mapping get_profile_files returns
ProfileKeys == {KeyOf(PROFILE_FILES[n]) : n \in Assets}

\* the read of asset n failed: a store call of its read_file raised
ReadFailed(n) == <<"read_file", AssetPath(n)>> \in cur[1].faults

CorruptedIsEmpty ==
    (Done(1) /\ cur[1].op = "get_profile_files" /\ cur[1].faults = {})
        => \A bad \in Assets :
               files = AssetFiles({}, bad)
                   => \A n \in Assets : (ret[1].v[KeyOf(PROFILE_FILES[n])] = <<>>) <=> (n = bad)

\* the days of the model's calendar: the last of a month and the first of the next
Day(m, d) == [y |-> 2026, m |-> m, d |-> d]
CoreDays  == {Day(2, 28), Day(3, 1)}

\* the log of a day on which one message was saved: "[09:05:00] user: П\n"
DayLog == Encode(LogEntry(<<9, 5, 0>>, UserRole, TextP))

\* a profile of one asset (king.txt), on some day, with the logs of that day
\* and of the day before or without them
InitCore ==
    /\ today \in CoreDays
    /\ detector = FALSE
    /\ \E logs \in SUBSET {today, PrevDay(today)} :
         files = [p \in {AssetPath(2)} \cup {LogPath("Mira", d) : d \in logs} |->
                     IF p = AssetPath(2) THEN Encode(AssetText(2)) ELSE DayLog]
    /\ dirs = DirsOf(files)
    /\ InitCallers

\* how many lines get_recent_messages and build_context are asked for
Limits == {10}

CoreRecent(c)  == \E limit \in Limits : Idle(c) /\ Invoke(c, RecentFrame("Mira", limit), <<>>)
CoreContext(c) == \E limit \in Limits : Idle(c) /\ Invoke(c, ContextFrame("Mira", limit), <<>>)
CoreSave(c)    ==
    /\ CanWrite /\ Idle(c)
    /\ Invoke(c, SaveFrame("Mira", UserRole, TextP, today, <<9, 5, 0>>), TextP)
CoreLibrary(c) == CanWrite /\ Idle(c) /\ Invoke(c, LibraryFrame("Mira", TextA), TextA)

\* one caller, one public call at a time, of ProfileManager
NextCore ==
    \/ CoreProfileFiles(1) \/ CoreRecent(1) \/ CoreContext(1) \/ CoreSave(1) \/ CoreLibrary(1)
    \/ Manager(1)

SpecCore == InitCore /\ [][NextCore]_vars

\* the public methods of ProfileManager
CoreOps == {"get_profile_files", "get_recent_messages", "build_context", "save_message", "add_to_library"}

\* C8 as stated: whatever the store holds, whichever store calls fail and
\* whatever the date, no public method of ProfileManager raises.
NeverRaises == (Done(1) /\ cur[1].op \in CoreOps) => ret[1].k # "raise"

----------------------------------------------------------------------------
(* get_recent_messages on the logs of three days. *)

\* the log of a day with n messages saved, one a second, each naming the day:
\* "[09:05:01] user: 28\n[09:05:02] user: 28\n..."
RECURSIVE LogOf(_, _)
LogOf(date, n) ==
    IF n = 0 THEN <<>> ELSE LogOf(date, n - 1) \o Encode(LogEntry(<<9, 5, n>>, UserRole, Digits2(date.d)))

\* " \n"
Blank == <<32, 10>>

\* what the log of a day may hold; "absent": there is no file
LogKinds == {"absent", "empty", "blank", "one", "three"}
LogOfKind(date, kind) ==
    CASE kind = "empty" -> <<>>
      [] kind = "blank" -> Blank
      [] kind = "one" -> LogOf(date, 1)
      [] kind = "three" -> LogOf(date, 3)

\* the logs of profile "Mira": of days[i] as kinds[i] says
LogFiles(days, kinds) ==
    [p \in {LogPath("Mira", days[i]) : i \in {j \in 1..Len(days) : kinds[j] # "absent"}} |->
        LET i == CHOOSE j \in 1..Len(days) : LogPath("Mira", days[j]) = p
        IN  LogOfKind(days[i], kinds[i])]

\* some day, with any logs of that day and of the day before, and with the
\* log of the day before these or without it
InitRecent ==
    /\ today \in CoreDays
    /\ detector = FALSE
    /\ \E t \in LogKinds, y \in LogKinds, o \in {"absent", "three"} :
         files = LogFiles(<<today, PrevDay(today), PrevDay(PrevDay(today))>>, <<t, y, o>>)
    /\ dirs = DirsOf(files)
    /\ InitCallers

\* how many lines get_recent_messages is asked for here
RecentLimits == {0, 1, 2, 3, 10}

RecentCall(c) == \E limit \in RecentLimits : Idle(c) /\ Invoke(c, RecentFrame("Mira", limit), <<>>)

\* the steps of get_recent_messages and of the read_file it calls
Recent(c) ==
    \/ RecentToday(c) \/ RecentYesterday(c) \/ RecentReadToday(c) \/ RecentReadYesterday(c)
    \/ ReadExists(c) \/ ReadDownload(c)

\* one caller calls get_recent_messages
NextRecent == RecentCall(1) \/ Recent(1)

SpecRecent == InitRecent /\ [][NextRecent]_vars

\* the text of the log of profile "Mira" of a day, as read_file gives it when
\* no store call fails and the detector is not there; no file: no text
LogText(date) ==
    IF LogPath("Mira", date) \in DOMAIN files THEN FallbackDecode(files[LogPath("Mira", date)]) ELSE <<>>

\* the lines of a text: the pieces between its line ends, an end at the end of
\* the text closing the last line
LinesOf(text) ==
    IF text = <<>> THEN <<>>
    ELSE IF Last(text) = 10 THEN Front(SplitLines(text))
    ELSE SplitLines(text)

IsSuffix(s, t) == Len(s) <= Len(t) /\ SubSeq(t, Len(t) - Len(s) + 1, Len(t)) = s

\* C11 as stated: when no store call fails, get_recent_messages returns lines
\* of today's log if that log is there and not empty, else lines of the log of
\* the calendar day before if that one is there and not empty, else the empty
\* string, whatever older logs hold; today is the date at the call.
RecentFallsBack ==
    (Done(1) /\ cur[1].op = "get_recent_messages" /\ cur[1].faults = {})
        => LET t == LogText(cur[1].date)
               y == LogText(PrevDay(cur[1].date))
               limit == cur[1].frame.limit
           IN  ret[1] = Text(IF t # <<>> THEN RecentOf(t, limit)
                             ELSE IF y # <<>> THEN RecentOf(y, limit)
                             ELSE <<>>)

\* C12 as stated: when get_recent_messages returns lines of a log content it
\* has read, for any limit >= 0, they are at most limit lines, they are the
\* last lines of the content in their order, and they are all its lines when
\* the content has fewer than limit lines (the white space at the ends of the
\* content apart, which the method strips).
RecentAtMostLimit ==
    [][(/\ At(1, "get_recent_messages", "read_today") \/ At(1, "get_recent_messages", "read_yesterday")
        /\ Truthy(ret[1])
        /\ Idle(1)')
          => LET lines == LinesOf(Strip(ret[1].v))
                 out   == LinesOf(ret'[1].v)
                 limit == Top(1).limit
             IN  /\ Len(out) <= limit
                 /\ IsSuffix(out, lines)
                 /\ Len(lines) < limit => out = lines]_vars

\* C22 as stated: whatever the current date, the first of a month and of a year
\* included, the date get_recent_messages computes for the fallback is the
\* calendar date before today's, and the partition it reads when today's
\* gives nothing is the partition of that date.
FallbackIsPreviousDay ==
    [][/\ At(1, "get_recent_messages", "yesterday")
            => /\ ret'[1].k # "raise"
               /\ stack'[1][Len(stack[1])].yesterday = PrevDay(Top(1).today)
       /\ At(1, "get_recent_messages", "read_today") /\ ~Truthy(ret[1])
            => Top(1)' = ReadFrame(LogPath("Mira", PrevDay(Top(1).today)))]_vars

----------------------------------------------------------------------------
(* save_message on a fresh partition. *)

\* "assistant"
AssistantRole == <<97, 115, 115, 105, 115, 116, 97, 110, 116>>

\* "A\nB": a message of two lines
TwoLines == <<65, 10, 66>>

\* the roles and the texts of the messages saved
Roles     == {UserRole, AssistantRole}
SaveTexts == {TextP, TwoLines}

\* no log of the day yet, its folder there or not
InitSave ==
    /\ today = LogDay
    /\ detector = FALSE
    /\ files = <<>>
    /\ dirs \in {{Root}, Prefixes(LogDir("Mira", LogDay))}
    /\ InitCallers

SaveCall(c) ==
    CanWrite /\ \E role \in Roles, text \in SaveTexts :
        Idle(c) /\ Invoke(c, SaveFrame("Mira", role, text, today, <<9, 5, 0>>), text)

\* one caller calls save_message
NextSave == SaveCall(1) \/ Save(1) \/ Appending(1)

SpecSave == InitSave /\ [][NextSave]_vars

\* the entries save_message has added to the log at p, in the order of the calls
SavedEntries(p) == [i \in 1..Len(On(sent.log, p)) |-> On(sent.log, p)[i][3]]

\* C13 as stated: after n calls of save_message have added their entries to a
\* partition that was fresh, whatever the roles and the texts, the file has
\* exactly n lines, the i-th the entry of the i-th call, "[HH:MM:SS] role: text".
OneLinePerMessage ==
    LET p == LogPath("Mira", LogDay)
    IN  LinesOf(DecodeUtf8(ContentIn(files, p))) = [i \in 1..Len(SavedEntries(p)) |-> Front(SavedEntries(p)[i])]

----------------------------------------------------------------------------
(* build_context on profiles with some assets and some logs. *)

\* the assets a profile lacks: none, all but persona and rules, the library, all
ContextMissing == {{}, {1, 4, 5}, {4}, Assets}

\* some day, a profile with some assets, with the logs of that day and of the
\* day before or without them
InitContext ==
    /\ today \in CoreDays
    /\ detector = FALSE
    /\ \E missing \in ContextMissing, t \in {"absent", "three"}, y \in {"absent", "one"} :
         files = AssetFiles(missing, 0) @@ LogFiles(<<today, PrevDay(today)>>, <<t, y>>)
    /\ dirs = DirsOf(files)
    /\ InitCallers

ContextCall(c) == \E limit \in {2, 10} : Idle(c) /\ Invoke(c, ContextFrame("Mira", limit), <<>>)

\* the steps of build_context and of the methods it calls
Context(c) ==
    \/ ContextFiles(c) \/ ContextAssets(c) \/ ContextRecent(c) \/ ContextRaise(c)
    \/ ProfileFiles(c)
    \/ RecentToday(c) \/ RecentYesterday(c) \/ RecentReadToday(c) \/ RecentReadYesterday(c)

\* one caller calls build_context
NextContext == ContextCall(1) \/ Context(1)

SpecContext == InitContext /\ [][NextContext]_vars

\* the text of asset n of profile "Mira", as read_file gives it when no store
\* call fails and the detector is not there; no file: no text
AssetOf(n) == IF AssetPath(n) \in DOMAIN files THEN FallbackDecode(files[AssetPath(n)]) ELSE <<>>

\* the recent transcript on a date: lines of the log of that day, or of the day before
TranscriptOn(date, limit) ==
    IF LogText(date) # <<>> THEN RecentOf(LogText(date), limit)
    ELSE IF LogText(PrevDay(date)) # <<>> THEN RecentOf(LogText(PrevDay(date)), limit)
    ELSE <<>>

\* the section of a source under its label, none when the source is empty
Labeled(label, source) == IF source = <<>> THEN <<>> ELSE <<label \o source \o <<10>>>>

\* C14 as stated: when no store call fails, build_context returns the labeled
\* sections of persona, rules, library and recent transcript, in that order,
\* joined by line ends, a section being there exactly when its source is not
\* empty: the empty string for a profile with no assets and no transcript,
\* the sections of persona and rules alone for a profile with only these.
ContextSections ==
    (Done(1) /\ cur[1].op = "build_context" /\ cur[1].faults = {})
        => LET recent == TranscriptOn(cur[1].date, cur[1].frame.limit)
           IN  /\ ret[1] = Text(Join(<<10>>, Labeled(KingLabel, AssetOf(2)) \o Labeled(RulesLabel, AssetOf(3))
                                                \o Labeled(LibraryLabel, AssetOf(4))
                                                \o Labeled(RecentLabel, recent)))
               /\ (\A n \in {2, 3, 4} : AssetOf(n) = <<>>) /\ recent = <<>> => ret[1] = Text(<<>>)
               /\ AssetOf(2) # <<>> /\ AssetOf(3) # <<>> /\ AssetOf(4) = <<>> /\ recent = <<>>
                    => ret[1] = Text(KingLabel \o AssetOf(2) \o <<10, 10>> \o RulesLabel \o AssetOf(3) \o <<10>>)

----------------------------------------------------------------------------
(* add_to_library, called again and again. *)

\* the path of the library of profile "Mira"
LibraryPath == AssetPath(4)

\* some day; the library is there, with text, or not, and so is the profile's folder
InitLibrary ==
    /\ today \in CoreDays
    /\ detector = FALSE
    /\ files \in {<<>>, AssetFiles(Assets \ {4}, 0)}
    /\ dirs \in {{Root}, {Root, <<"Mira">>}}
    /\ WellFormed(dirs, files)
    /\ InitCallers

LibraryCall(c) ==
    CanWrite /\ \E text \in {TextA, TextB} : Idle(c) /\ Invoke(c, LibraryFrame("Mira", text), text)

\* one caller calls add_to_library
NextLibrary == LibraryCall(1) \/ LibraryAppend(1) \/ LibraryDone(1) \/ Appending(1)

SpecLibrary == InitLibrary /\ [][NextLibrary]_vars

\* the bytes of the timestamped blocks of the additions l, in order
RECURSIVE Blocks(_)
Blocks(l) ==
    IF l = <<>> THEN <<>>
    ELSE Encode(LibraryEntry(Head(l)[2], Head(l)[3], Head(l)[1])) \o Blocks(Tail(l))

\* C15: between calls, library.txt holds what it held at first, then the
\* timestamped block of every add_to_library that returned True, whole and in
\* the order of the calls: after add(A) and add(B), the prior content, A's
\* block, B's block.
LibraryInCallOrder ==
    Idle(1) => ContentIn(files, LibraryPath) = ContentIn(sent.base, LibraryPath) \o Blocks(sent.added)

\* a library that had text; A and then B have been added, both calls returned True
LibraryInCallOrderWitness ==
    /\ Done(1) /\ cur[1].op = "add_to_library" /\ IsTrue(ret[1])
    /\ ContentIn(sent.base, LibraryPath) # <<>>
    /\ Len(sent.added) = 2 /\ sent.added[1][1] = TextA /\ sent.added[2][1] = TextB

----------------------------------------------------------------------------
(* read_file on files of any origin, and after write_to_file. *)

\* n copies of the bytes u in a row
RECURSIVE Rep(_, _)
Rep(u, n) == IF n = 0 THEN <<>> ELSE u \o Rep(u, n - 1)

\* the byte-order mark in UTF-8
Utf8BOM == <<239, 187, 191>>

(* Bytes of files: "A", 0xFF (no UTF-8; a letter in windows-1251), 0x98 (not  *)
(* in windows-1251), 0xB0, 0xB0 0x98, "П" and the euro sign in UTF-8, "*",    *)
(* 0x98 0xFF, 0xB0 "A"; each once (a short text) or ten times in a row, with  *)
(* a byte-order mark before it or without.                                    *)
RawUnits ==
    {<<65>>, <<255>>, <<152>>, <<176>>, <<176, 152>>, <<208, 159>>, <<226, 130, 172>>, <<42>>,
     <<152, 255>>, <<176, 65>>}
RawInputs == {pre \o Rep(u, n) : pre \in {<<>>, Utf8BOM}, u \in RawUnits, n \in {1, 10}}

\* "Привет", and ten euro signs, ten "*": texts that are valid UTF-8 and have no byte-order mark
Privet == <<1055, 1088, 1080, 1074, 1077, 1090>>
Euros  == Rep(<<8364>>, 10)
Stars  == Rep(<<42>>, 10)
RoundTexts == {<<>>, TextP, Privet, Euros, Stars}

\* a file of some bytes in the root folder; no detector
InitCodec ==
    /\ today = LogDay
    /\ detector = FALSE
    /\ \E raw \in RawInputs : files = [p \in {<<"notes.txt">>} |-> raw]
    /\ dirs = {Root}
    /\ InitCallers

CodecRead(c)  == \E p \in RacePaths : Idle(c) /\ Invoke(c, ReadFrame(p), <<>>)
CodecWrite(c) ==
    CanWrite /\ \E p \in RacePaths, text \in RoundTexts : Idle(c) /\ Invoke(c, WriteFrame(p, text), text)

\* one caller reads and writes
NextCodec ==
    \/ CodecRead(1) \/ CodecWrite(1)
    \/ ReadExists(1) \/ ReadDownload(1)
    \/ WriteEnsure(1) \/ WriteUpload(1)
    \/ EnsureExists(1) \/ EnsureMkdir(1) \/ EnsureDone(1)

SpecCodec == InitCodec /\ [][NextCodec]_vars

\* C16 as stated: when no store call fails, read_file(path) returns exactly the
\* text X of the last write_to_file(path, X) that returned True, for every path
\* and every X that is valid UTF-8 and has no byte-order mark.
RoundTrip ==
    (Done(1) /\ cur[1].op = "read_file" /\ cur[1].faults = {} /\ On(sent.log, cur[1].path) # <<>>)
        => ret[1] = Text(Last(On(sent.log, cur[1].path))[3])

\* the order of the codecs, as the claim states it
StatedOrder == <<"utf-8", "windows-1251", "koi8-r", "cp866", "iso-8859-5">>

\* codec k of the list decodes raw strictly and its output looks like text
Accepts(k, raw) == Decodes(StatedOrder[k], raw) /\ LooksLikeText(Decode(StatedOrder[k], raw))

\* the first codec of the list that accepts raw; 0: none does
FirstAccepting(raw) ==
    IF \E k \in 1..Len(StatedOrder) : Accepts(k, raw)
    THEN CHOOSE k \in 1..Len(StatedOrder) : Accepts(k, raw) /\ \A j \in 1..(k - 1) : ~Accepts(j, raw)
    ELSE 0

\* read_file has returned the text of a file it downloaded, decoded by the fallback decoder
FallbackRan == Done(1) /\ cur[1].op = "read_file" /\ ret[1].k = "text" /\ ~detector

\* C17 as stated: the fallback decoder returns the output of the first codec of
\* the list UTF-8, Windows-1251, KOI8-R, CP866, ISO-8859-5 that decodes the
\* bytes strictly and whose output passes the heuristic, and the lossy UTF-8
\* decoding only when no codec of the list does both.
FirstAcceptedOutput ==
    FallbackRan
        => LET raw == files[cur[1].path]
               k   == FirstAccepting(raw)
           IN  ret[1].v = IF k = 0 THEN DecodeUtf8Ignore(raw) ELSE Decode(StatedOrder[k], raw)

\* C17 amended: it returns the output of that first codec with a leading
\* byte-order mark removed; the lossy decoding keeps the mark.
FirstAcceptedStripped ==
    FallbackRan
        => LET raw == files[cur[1].path]
               k   == FirstAccepting(raw)
           IN  ret[1].v = IF k = 0 THEN DecodeUtf8Ignore(raw) ELSE StripBOM(Decode(StatedOrder[k], raw))

\* bytes that UTF-8 decodes to a text the heuristic rejects, and that a later
\* codec of the list is the first to accept, have been read
FirstAcceptedWitness ==
    /\ FallbackRan
    /\ ValidUtf8(files[cur[1].path])
    /\ FirstAccepting(files[cur[1].path]) > 1

----------------------------------------------------------------------------
(* TelegramBot.handle_message, one user writing to the bot. *)

HandleFrame(user, text) ==
    [fn |-> "handle_message", path |-> <<>>, user |-> user, text |-> text, profile |-> "",
     reply |-> <<>>, pc |-> "check"]

\* update.message.reply_text(text): the last text the user has from the bot, and of which kind
Replied(user, kind, text) == Put(replies, user, <<kind, text>>)

\* what DeepSeekClient.send_message may return: None (the request failed, the
\* status was not 200, the answer was malformed), or the content of the answer
NoResponse == <<"none", <<>>>>
Responses  == {NoResponse, <<"content", <<>>>>, <<"content", TextB>>}

\* a variant that saves the two messages whatever the model returned
HasContentAlways(response) == TRUE

\* line 156: response_data and response_data.get("content")
HasContent(response) == response # NoResponse /\ response[2] # <<>>

\* a variant that answers a user without a profile as the first profile of the configuration
HandleCheckDefault(c) ==
    /\ At(c, "handle_message", "check")
    /\ UNCHANGED <<dirs, files, ret, cur, prev, today, detector, temps, sent, chat>>
    /\ Goto(c, [Top(c) EXCEPT !.profile = IF Top(c).user \in DOMAIN user_profiles
                                          THEN user_profiles[Top(c).user] ELSE "Mira",
                              !.pc = "send"])

\* lines 128-143: without an active profile the user is asked to choose one
HandleCheck(c) ==
    /\ At(c, "handle_message", "check")
    /\ UNCHANGED <<dirs, files, cur, today, detector, temps, sent, user_profiles, requests>>
    /\ IF Top(c).user \in DOMAIN user_profiles
       THEN /\ Goto(c, [Top(c) EXCEPT !.profile = user_profiles[Top(c).user], !.pc = "send"])
            /\ UNCHANGED <<ret, prev, replies>>
       ELSE /\ replies' = Replied(Top(c).user, "choose", <<>>)
            /\ Return(c, None)

\* lines 150-169: self.deepseek.send_message(chat_id=profile_name, message=user_message,
\* history=[]); the call is kept with what it returned; without content in the
\* answer the user is told of the error
HandleSend(c) ==
    /\ At(c, "handle_message", "send")
    /\ UNCHANGED <<dirs, files, cur, today, detector, temps, sent, user_profiles>>
    /\ \E response \in Responses :
         /\ requests' = Append(requests, [chat_id |-> Top(c).profile, message |-> Top(c).text,
                                          history |-> <<>>, response |-> response])
         /\ IF HasContent(response)
            THEN /\ Goto(c, [Top(c) EXCEPT !.reply = response[2], !.pc = "save_user"])
                 /\ UNCHANGED <<ret, prev, replies>>
            ELSE /\ replies' = Replied(Top(c).user, "failed", <<>>)
                 /\ Return(c, None)

\* line 161: self.profiles.save_message(profile_name, "user", user_message, datetime.now())
HandleSaveUser(c) ==
    /\ At(c, "handle_message", "save_user")
    /\ UNCHANGED <<dirs, files, ret, cur, prev, detector, temps, sent, chat>>
    /\ \E now \in Now, time \in Times :
         /\ today' = now
         /\ Call(c, [Top(c) EXCEPT !.pc = "save_assistant"],
                 SaveFrame(Top(c).profile, UserRole, Top(c).text, now, time))

\* line 162: self.profiles.save_message(profile_name, "assistant", assistant_message, datetime.now())
HandleSaveAssistant(c) ==
    /\ At(c, "handle_message", "save_assistant")
    /\ UNCHANGED <<dirs, files, ret, cur, prev, detector, temps, sent, chat>>
    /\ \E now \in Now, time \in Times :
         /\ today' = now
         /\ Call(c, [Top(c) EXCEPT !.pc = "reply"],
                 SaveFrame(Top(c).profile, AssistantRole, Top(c).reply, now, time))

\* lines 165-167: update.message.reply_text(assistant_message)
HandleReply(c) ==
    /\ At(c, "handle_message", "reply")
    /\ UNCHANGED <<dirs, files, cur, today, detector, temps, sent, user_profiles, requests>>
    /\ replies' = Replied(Top(c).user, "answer", Top(c).reply)
    /\ Return(c, None)

\* the user who writes to the bot
Users == {1}

\* the profile has its persona and nothing logged; the user has chosen it or not
InitBot ==
    /\ today = Day(2, 28)
    /\ detector = FALSE
    /\ files = AssetFiles(Assets \ {2}, 0)
    /\ dirs = DirsOf(files)
    /\ stack = [c \in Callers |-> <<>>]
    /\ ret = [c \in Callers |-> NoOutcome]
    /\ cur = [c \in Callers |-> NoCall]
    /\ prev = [c \in Callers |-> NoEnsured]
    /\ sent = [base |-> files, log |-> <<>>, added |-> <<>>]
    /\ temps = {}
    /\ user_profiles \in {<<>>, [u \in Users |-> "Mira"]}
    /\ requests = <<>>
    /\ replies = <<>>

\* a message of the user arrives
Message(c) ==
    Len(requests) < MaxMessages /\ \E user \in Users : Idle(c) /\ Invoke(c, HandleFrame(user, TextA), TextA)

Handle(c) ==
    \/ HandleCheck(c) \/ HandleSend(c) \/ HandleSaveUser(c) \/ HandleSaveAssistant(c) \/ HandleReply(c)

NextBot == Message(1) \/ Handle(1) \/ Save(1) \/ Appending(1)

SpecBot == InitBot /\ [][NextBot]_vars

\* the text build_context assembles from the store on a date
Assembled(date, limit) ==
    Join(<<10>>, Labeled(KingLabel, AssetOf(2)) \o Labeled(RulesLabel, AssetOf(3))
                     \o Labeled(LibraryLabel, AssetOf(4)) \o Labeled(RecentLabel, TranscriptOn(date, limit)))

\* C19 as stated: every call of the language model made for a message of a
\* user is given, as its prior context, the text build_context assembles for
\* the profile the user has chosen.
ContextSupplied ==
    [][requests' # requests
          => \E i \in DOMAIN Last(requests').history : Last(requests').history[i] = Assembled(today, 10)]_vars

\* the files after save_message has added, or not, the entry of a role on a date
Logged(fs, saved, profile, date, role, text) ==
    IF saved
    THEN Put(fs, LogPath(profile, date),
             ContentIn(fs, LogPath(profile, date)) \o Encode(LogEntry(<<23, 59, 59>>, role, text)))
    ELSE fs

\* the handler of a message of a user with a profile is done; the call of the model it made
Handled == Done(1) /\ cur[1].op = "handle_message" /\ cur[1].frame.user \in DOMAIN user_profiles
Replying(call) == call.response[1] = "content" /\ call.response[2] # <<>>

\* the files after the user entry and the assistant entry were saved, or not,
\* on the day the message came or the next
Exchange(call, su, du, sa, da) ==
    Logged(Logged(cur[1].preFiles, su, call.chat_id, du, UserRole, call.message),
           sa, call.chat_id, da, AssistantRole, call.response[2])
Dates == {<<cur[1].date, cur[1].date>>, <<cur[1].date, NextDay(cur[1].date)>>,
          <<NextDay(cur[1].date), NextDay(cur[1].date)>>}

\* C20 as stated: for a message of a user with a profile, when the model
\* returns a reply that is not empty the log has the user entry and then the
\* assistant entry added; when the model fails or returns no content the
\* files are as they were.
ExchangeLoggedAlways ==
    Handled
        => IF Replying(Last(requests))
           THEN \E d \in Dates : files = Exchange(Last(requests), TRUE, d[1], TRUE, d[2])
           ELSE files = cur[1].preFiles

\* C20 amended: save_message is called for the user entry and then for the
\* assistant entry; both are added, in that order, when no store call fails,
\* and an entry whose store calls fail may be missing while the other is added.
ExchangeLogged ==
    Handled
        => IF Replying(Last(requests))
           THEN /\ replies[cur[1].frame.user] = <<"answer", Last(requests).response[2]>>
                /\ \E d \in Dates, su, sa \in BOOLEAN :
                     /\ files = Exchange(Last(requests), su, d[1], sa, d[2])
                     /\ cur[1].faults = {} => su /\ sa
           ELSE /\ files = cur[1].preFiles
                /\ replies[cur[1].frame.user] = <<"failed", <<>>>>

\* a reply was returned, no store call failed, and the two entries are in the log of the day
ExchangeLoggedWitness ==
    /\ Handled
    /\ Replying(Last(requests))
    /\ cur[1].faults = {}
    /\ files = Exchange(Last(requests), TRUE, cur[1].date, TRUE, cur[1].date)
    /\ files # cur[1].preFiles

\* C27: while the message of a user who has no entry in user_profiles is
\* handled, the language model is not called and the store is not written to,
\* and when the handler is done the user has the prompt to choose a profile.
NoProfileNoEffect ==
    [][(cur'[1].op = "handle_message" /\ cur'[1].frame.user \notin DOMAIN user_profiles')
           => /\ UNCHANGED <<dirs, files, requests, sent>>
              /\ (stack'[1] = <<>> /\ ret'[1].k # "idle")
                    => replies'[cur'[1].frame.user] = <<"choose", <<>>>>]_vars

\* the message of a user without a profile has been handled
NoProfileNoEffectWitness ==
    /\ Done(1) /\ cur[1].op = "handle_message"
    /\ cur[1].frame.user \notin DOMAIN user_profiles
    /\ replies[cur[1].frame.user] = <<"choose", <<>>>>
    /\ requests = <<>> /\ files = cur[1].preFiles

----------------------------------------------------------------------------
(* Every public method of the adapter and of the core, one caller. *)

\* the profile has its persona, a note beside it, and the log of the day or not
InitStore ==
    /\ today = Day(2, 28)
    /\ detector = FALSE
    /\ \E logs \in SUBSET {today} :
         files = [p \in {AssetPath(2), <<"notes.txt">>} \cup {LogPath("Mira", d) : d \in logs} |->
                     IF p = AssetPath(2) THEN Encode(AssetText(2))
                     ELSE IF p = <<"notes.txt">> THEN Encode(TextP) ELSE DayLog]
    /\ dirs = DirsOf(files)
    /\ InitCallers

\* the calls of the adapter: the folder and the log of another day, the note
StoreEnsure(c) == Idle(c) /\ Invoke(c, EnsureFrame(LogDir("Mira", LogDay)), <<>>)
StoreAppend(c) == CanWrite /\ Idle(c) /\ Invoke(c, AppendFrame(LogPath("Mira", LogDay), TextA), TextA)
StoreWrite(c)  == CanWrite /\ Idle(c) /\ Invoke(c, WriteFrame(<<"notes.txt">>, TextA), TextA)
StoreRead(c)   == \E p \in {<<"notes.txt">>, LogPath("Mira", LogDay)} : Idle(c) /\ Invoke(c, ReadFrame(p), <<>>)
StoreList(c)   == Idle(c) /\ Invoke(c, ListFrame(<<"Mira">>), <<>>)

\* one caller, one public call at a time, of YandexDiskClient or of ProfileManager
NextStore ==
    \/ StoreEnsure(1) \/ StoreAppend(1) \/ StoreWrite(1) \/ StoreRead(1) \/ StoreList(1)
    \/ CoreProfileFiles(1) \/ CoreRecent(1) \/ CoreContext(1) \/ CoreSave(1) \/ CoreLibrary(1)
    \/ WriteEnsure(1) \/ WriteUpload(1) \/ ReadExists(1) \/ ReadDownload(1)
    \/ ListExists(1) \/ ListListdir(1)
    \/ Manager(1)

SpecStore == InitStore /\ [][NextStore]_vars

\* the methods the claim names as reading only
ReadingOps == {"read_file", "list_files", "get_profile_files", "get_recent_messages", "build_context"}

\* C21: no step of any public method takes a directory or a file away from the
\* remote store, and no step of read_file, list_files, get_profile_files,
\* get_recent_messages or build_context changes the store at all.
NothingDeleted ==
    [][/\ dirs \subseteq dirs'
       /\ DOMAIN files \subseteq DOMAIN files'
       /\ cur'[1].op \in ReadingOps => UNCHANGED <<dirs, files>>]_vars

\* a reading method has returned content from a store that writing methods had extended
NothingDeletedWitness ==
    /\ Done(1)
    /\ cur[1].op \in ReadingOps
    /\ Truthy(ret[1])
    /\ DOMAIN sent.base \subseteq DOMAIN files /\ DOMAIN files # DOMAIN sent.base
    /\ Cardinality(dirs) > Cardinality(DirsOf(sent.base))

----------------------------------------------------------------------------
(* _looks_like_text on texts around its thresholds. *)

LooksFrame(text) == [fn |-> "_looks_like_text", path |-> <<>>, text |-> text, pc |-> "scan"]

\* lines 277-297: the verdict on the text
LooksScan(c) ==
    /\ At(c, "_looks_like_text", "scan")
    /\ UNCHANGED <<dirs, files, cur, today, detector, temps, chat, sent>>
    /\ Return(c, Bool(LooksLikeText(Top(c).text)))

\* a text of n characters, g of them letters and the others '*', first or
\* last, followed by a tail of the character t
Sample(n, g, first, tail, t) ==
    [i \in 1..(n + tail) |->
        IF i > n THEN t
        ELSE IF first THEN (IF i <= g THEN 1055 ELSE 42)
        ELSE (IF i <= n - g THEN 42 ELSE 65)]

\* short texts, texts of 10 to 20 characters with every number of letters,
\* and texts of 1000 characters at the threshold with tails past them
LooksTexts ==
    {Sample(n, g, first, 0, 42) : n \in {0, 1, 9, 10, 15, 20}, g \in 0..20, first \in BOOLEAN}
        \cup {Sample(1000, g, first, tail, t) :
                  g \in {599, 600, 601}, first \in BOOLEAN, tail \in {0, 1, 400, 1000}, t \in {42, 65}}

InitLooks ==
    /\ today = LogDay
    /\ detector = FALSE
    /\ files = <<>>
    /\ dirs = {Root}
    /\ InitCallers

LooksCall(c) == \E text \in LooksTexts : Idle(c) /\ Invoke(c, LooksFrame(text), text)

NextLooks == LooksCall(1) \/ LooksScan(1)

SpecLooks == InitLooks /\ [][NextLooks]_vars

\* the characters of text that are examined, and those of them that count as good
Examined(text) == IF Len(text) < 1000 THEN Len(text) ELSE 1000
GoodOf(text)   == Cardinality({i \in 1..Examined(text) : IsGoodChar(text[i])})

\* C23: the heuristic accepts every text of fewer than 10 characters; a longer
\* text it accepts exactly when, among its first 1000 characters, the good ones
\* are strictly more than 0.6 of them (5 * good > 3 * examined), so a ratio of
\* exactly 0.6 is rejected and the characters past the first 1000 do not count.
HeuristicThreshold ==
    (Done(1) /\ cur[1].op = "_looks_like_text")
        => /\ ret[1].k = "bool"
           /\ Len(cur[1].text) < 10 => ret[1].v
           /\ Len(cur[1].text) >= 10 => (ret[1].v <=> 5 * GoodOf(cur[1].text) > 3 * Examined(cur[1].text))
           /\ 5 * GoodOf(cur[1].text) = 3 * Examined(cur[1].text) /\ Len(cur[1].text) >= 10 => ~ret[1].v

\* a text of 1400 characters was rejected: 600 of its first 1000 are good, and all of the 400 after them
HeuristicThresholdWitness ==
    /\ Done(1) /\ cur[1].op = "_looks_like_text"
    /\ Len(cur[1].text) = 1400
    /\ GoodOf(cur[1].text) = 600
    /\ \A i \in 1001..1400 : IsGoodChar(cur[1].text[i])
    /\ IsFalse(ret[1])

----------------------------------------------------------------------------
(* Two callers of ensure_folder_exists on a store that has the root only. *)

\* paths that share their first segment
SharedPaths == {<<"Mira">>, <<"Mira", "logs">>}

InitShared ==
    /\ today = LogDay
    /\ detector = FALSE
    /\ files = <<>>
    /\ dirs = {Root}
    /\ InitCallers

SharedEnsure(c) == \E p \in SharedPaths : Idle(c) /\ Invoke(c, EnsureFrame(p), <<>>)

NextShared == \E c \in Callers : SharedEnsure(c) \/ EnsureExists(c) \/ EnsureMkdir(c) \/ EnsureDone(c)

SpecShared == InitShared /\ [][NextShared]_vars

\* C24 as stated: with two callers of ensure_folder_exists at once on paths
\* that share a missing segment, every call during which no store call failed
\* in transport returns True, and the folder it named exists when it returns.
EnsureTrueWhenShared ==
    \A c \in Callers :
        (Done(c) /\ cur[c].op = "ensure_folder_exists" /\ cur[c].faults = {})
            => IsTrue(ret[c]) /\ cur[c].path \in dirs

----------------------------------------------------------------------------
(* TelegramBot.button_callback: users choose profiles and write to the bot. *)

\* "profile_": what the keyboards of lines 50-53 and 61-64 put before a name
\* in callback_data
ButtonPrefix == <<112, 114, 111, 102, 105, 108, 101, 95>>

\* str.replace(old, new): every occurrence of old, from the left, none overlapping
RECURSIVE Replaced(_, _, _)
Replaced(text, old, new) ==
    IF Len(text) < Len(old) THEN text
    ELSE IF SubSeq(text, 1, Len(old)) = old
         THEN new \o Replaced(SubSeq(text, Len(old) + 1, Len(text)), old, new)
         ELSE <<Head(text)>> \o Replaced(Tail(text), old, new)

\* the names of the profiles of the configuration, "Mira" and "profile_x",
\* and the other names a user can come to have, each with its text
Configured == {<<"Mira", <<77, 105, 114, 97>>>>, <<"profile_x", ButtonPrefix \o <<120>>>>}
Named      == Configured \cup {<<"x", <<120>>>>}
Str(text)  == (CHOOSE r \in Named : r[2] = text)[1]

ButtonFrame(user, data) ==
    [fn |-> "button_callback", path |-> <<>>, user |-> user, data |-> data, profile |-> "", pc |-> "select"]

\* lines 106-113: if data.startswith("profile_"): user_profiles[user_id] =
\* data.replace("profile_", ""), then get_profile_files of that name
ButtonSelect(c) ==
    /\ At(c, "button_callback", "select")
    /\ UNCHANGED <<dirs, files, cur, today, detector, temps, sent, requests, replies>>
    /\ IF IsPrefix(ButtonPrefix, Top(c).data)
       THEN LET profile_name == Str(Replaced(Top(c).data, ButtonPrefix, <<>>))
            IN  /\ user_profiles' = Put(user_profiles, Top(c).user, profile_name)
                /\ Call(c, [Top(c) EXCEPT !.profile = profile_name, !.pc = "welcome"],
                        ProfileFilesFrame(profile_name))
                /\ UNCHANGED <<ret, prev>>
       ELSE Return(c, None) /\ UNCHANGED user_profiles

\* lines 114-123: the text of welcome.txt, or the default text, is shown
ButtonWelcome(c) ==
    /\ At(c, "button_callback", "welcome")
    /\ UNCHANGED <<dirs, files, cur, today, detector, temps, sent, user_profiles, requests>>
    /\ replies' = Replied(Top(c).user, "active", Get(ret[c].v, "welcome"))
    /\ Return(c, None)

\* the users of the bot
Pressers == {1, 2}

\* profile Mira has its welcome text; nobody has chosen a profile; the date
\* stays the same
InitSelect ==
    /\ today = Horizon
    /\ detector = FALSE
    /\ files = AssetFiles(Assets \ {5}, 0)
    /\ dirs = DirsOf(files)
    /\ InitCallers

\* a user presses the button of a profile of the configuration
Press(c) ==
    \E user \in Pressers, r \in Configured :
        Idle(c) /\ Invoke(c, ButtonFrame(user, ButtonPrefix \o r[2]), r[2])

\* a user sends a text
Chat(c) ==
    Len(requests) < MaxMessages /\ \E user \in Pressers : Idle(c) /\ Invoke(c, HandleFrame(user, TextA), TextA)

\* the updates are handled one at a time
NextSelect ==
    \/ Press(1) \/ ButtonSelect(1) \/ ButtonWelcome(1) \/ ProfileFiles(1)
    \/ Chat(1) \/ Handle(1) \/ Save(1) \/ Appending(1)

SpecSelect == InitSelect /\ [][NextSelect]_vars

\* C26 as stated: pressing the button of profile P makes P, whatever its name,
\* the entry of the user who pressed and changes no other entry; nothing else
\* changes the map; and what a message of a user adds to the store is under
\* the entry of that user.
ProfileSelected ==
    [][/\ At(1, "button_callback", "select")
            => user_profiles' = Put(user_profiles, Top(1).user, Str(cur[1].text))
       /\ user_profiles' # user_profiles => At(1, "button_callback", "select")
       /\ sent'.log # sent.log /\ cur[1].op = "handle_message"
            => Last(sent'.log)[2][1] = user_profiles[cur[1].frame.user]]_vars


=============================================================================
